---------------------------- MODULE Spec2Model ----------------------------
(***************************************************************************)
(* A model of the BusinessIntel lead-scoring service:                      *)
(*   - InstagramAnalyzer.analyze_profile       (src/instagram_analyzer.py) *)
(*   - the result cache and the batch endpoint (src/api_server.py)         *)
(*   - the analysis repository                 (src/database.py,           *)
(*                                    src/app/models/database_manager.py)  *)
(*   - the crawl-job scheduler                 (src/scheduler.py)          *)
(*                                                                         *)
(* Numbers.  Python floats are modelled by exact fractions: a rate or a    *)
(* mean is kept as numerator and denominator and compared with a decimal   *)
(* threshold by cross-multiplication.  The opportunity score is summed in  *)
(* hundredths and returned in tenths (5.0 is 50).  Timestamps of posts are *)
(* hours; timedelta.days is the floor division by 24.  The wall clock is   *)
(* in seconds.  round(x, 2) is taken on the exact fraction; on a binary    *)
(* float a tie such as 0.275 can fall the other way.                       *)
(*                                                                         *)
(* scheduler.py and api_server.py import DatabaseManager from module       *)
(* `database`; the crawl-job columns and queries they use (next_run,       *)
(* frequency, get_active_jobs, search_businesses) are those of             *)
(* src/app/models, which is what the model follows.                        *)
(***************************************************************************)
EXTENDS Integers, Sequences, FiniteSets, TLC

VARIABLES
    profile_data,      \* scoring: the snapshot handed to analyze_profile
    analysis,          \* scoring: what analyze_profile returned for it
    clock,             \* the wall clock read by datetime.now() / datetime.utcnow()
    analysis_history,  \* repository: the rows of table analysis_history, in insertion order
    response,          \* repository: what the last repository call returned
    instagram_profiles,\* repository: table instagram_profiles, by username
    analysis_cache,    \* api: the dict analysis_cache, by requested username
    tasks,             \* api: the analyze_profile_async coroutines in flight
    batch,             \* api: the batch_analyze_profiles request in flight
    crawl_jobs,        \* scheduler: table crawl_jobs, by id
    sched,             \* scheduler: the position of CrawlerScheduler in start()
    job_log            \* scheduler: per job, what its last run read and did

scoreVars == << profile_data, analysis >>
repoVars  == << clock, analysis_history, response >>
apiVars   == << analysis_cache, tasks, batch >>
schedVars == << crawl_jobs, sched, job_log >>
nonRepoVars == << scoreVars, instagram_profiles, apiVars, schedVars >>
vars == << profile_data, analysis, clock, analysis_history, response,
           instagram_profiles, analysis_cache, tasks, batch,
           crawl_jobs, sched, job_log >>

-----------------------------------------------------------------------------
(* Generic helpers *)

RECURSIVE SumOver(_, _)
\* sum(f(x) for x in seq), with f given as a function over the indices
SumOver(f, n) == IF n = 0 THEN 0 ELSE f[n] + SumOver(f, n - 1)

Min2(a, b) == IF a <= b THEN a ELSE b
Max2(a, b) == IF a >= b THEN a ELSE b

\* Python's round(): nearest, ties to even.  num / den rounded to an integer.
RoundHalfEven(num, den) ==
    LET q == num \div den
        r == num % den
    IN  IF 2 * r < den THEN q
        ELSE IF 2 * r > den THEN q + 1
        ELSE IF q % 2 = 0 THEN q ELSE q + 1

\* A slice that stops one element early
TakeOneLess(seq, k) == SubSeq(seq, 1, Min2(k - 1, Len(seq)))

\* seq[:k]
Take(seq, k) == SubSeq(seq, 1, Min2(k, Len(seq)))

\* "if cond: seq.append(x)"
AppendIf(seq, cond, x) == IF cond THEN Append(seq, x) ELSE seq

-----------------------------------------------------------------------------
(* InstagramAnalyzer.analyze_profile *)

HoursPerDay == 24

\* timedelta.days of a difference given in hours
Days(hours) == hours \div HoursPerDay

SecondsPerHour == 3600
SecondsPerDay  == 86400

\* datetime.isoformat() and datetime.fromisoformat(), to the second: the text
\* carries the calendar day and the time of day
IsoFormat(seconds) == [date |-> seconds \div SecondsPerDay, time |-> seconds % SecondsPerDay]
FromIsoFormat(text) == text.date * SecondsPerDay + text.time

NoProfile == [username |-> "", followers |-> 0, following |-> 0, total_posts |-> 0,
              is_business |-> FALSE, recent_posts |-> << >>, found |-> FALSE]

NoError == "none"
InsufficientData == "Insufficient data for analysis"

IssueLowEngagement == "Low engagement rate"
IssueInconsistent  == "Inconsistent posting schedule"
IssueInactive      == "Inactive account"
IssueOverFollowing == "Following too many accounts"
IssueWeakComments  == "Very low comment-to-like ratio"
IssueLimitedLibrary == "Limited content library"

RecHashtags     == "Implement strategic hashtag research"
RecSchedule     == "Establish consistent posting schedule"
RecConversation == "Create content that encourages conversation"
RecResume       == "Resume regular posting immediately"
RecTopPosts     == "Analyze top-performing posts"
RecPostingTimes == "Optimize posting times"
RecVisualQuality == "Invest in high-quality visual content"

\* The result returned when there is nothing to analyze (lines 99-103); the
\* absent keys of the Python dict are the default values here.
ErrorResult(msg, who) ==
    [error |-> msg, username |-> who, opportunity_score |-> 0,
     followers |-> 0, following |-> 0, posts |-> 0, is_business |-> FALSE,
     engagement_rate |-> 0, average_likes |-> 0, average_comments |-> 0,
     posting_frequency |-> "", avg_posting_interval_days |-> 0,
     last_post_days |-> 0, growth_potential |-> "",
     issues |-> << >>, recommendations |-> << >>, analyzed_at |-> IsoFormat(0)]

\* engagement_rate < t/10, the rate being rateNum / rateDen (0 when rateDen = 0)
RateLt(rateNum, rateDen, tenths) ==
    IF rateDen > 0 THEN rateNum * 10 < tenths * rateDen ELSE 0 < tenths

\* avg_posting_interval > t/10 and <= t/10, the mean being gapSum / gapCnt
IntervalGt(gapSum, gapCnt, tenths) == gapSum * 10 > tenths * gapCnt
\* A comparison that leaves the boundary to the next label
IntervalLeStrict(gapSum, gapCnt, tenths) == gapSum * 10 < tenths * gapCnt
IntervalLe(gapSum, gapCnt, tenths) == gapSum * 10 <= tenths * gapCnt

\* The bonuses with a quarter of a point for a business account
RawScoreBusinessQuarter(lowEng, slowPosting, inactive, established, business) ==
    500 + (IF lowEng THEN 150 ELSE 0)
        + (IF slowPosting THEN 150 ELSE 0)
        + (IF inactive THEN 100 ELSE 0)
        + (IF established THEN 100 ELSE 0)
        + (IF business THEN 25 ELSE 0)

\* The bonuses with the business bonus counted as a full point
RawScoreBusinessFull(lowEng, slowPosting, inactive, established, business) ==
    500 + (IF lowEng THEN 150 ELSE 0)
        + (IF slowPosting THEN 150 ELSE 0)
        + (IF inactive THEN 100 ELSE 0)
        + (IF established THEN 100 ELSE 0)
        + (IF business THEN 100 ELSE 0)

\* lines 180-191: the base and the five bonuses, in hundredths
RawScore(lowEng, slowPosting, inactive, established, business) ==
    500 + (IF lowEng THEN 150 ELSE 0)
        + (IF slowPosting THEN 150 ELSE 0)
        + (IF inactive THEN 100 ELSE 0)
        + (IF established THEN 100 ELSE 0)
        + (IF business THEN 50 ELSE 0)

\* A clamp that forgets the upper bound
ClampScoreNoUpper(hundredths) == Max2(10, RoundHalfEven(hundredths, 10))

\* line 193: min(10, max(1, round(score, 1))), result in tenths
ClampScore(hundredths) == Min2(100, Max2(10, RoundHalfEven(hundredths, 10)))

\* lines 109-110: sum(p['likes'] for p in posts), sum(p['comments'] for p in posts)
TotalLikes(posts)    == SumOver([i \in 1..Len(posts) |-> posts[i].likes], Len(posts))
TotalComments(posts) == SumOver([i \in 1..Len(posts) |-> posts[i].comments], Len(posts))

\* A rate that counts the likes only
RateNumLikesOnly(posts) == TotalLikes(posts) * 100

\* lines 111-116: engagement_rate = (avg_likes + avg_comments) / followers * 100
\* as the fraction RateNum / RateDen; RateDen = 0 stands for the rate 0 of line 116
RateNum(posts) == (TotalLikes(posts) + TotalComments(posts)) * 100
RateDen(posts, followers) == IF followers > 0 THEN Len(posts) * followers ELSE 0

\* lines 119-125: the mean of the day gaps of adjacent posts as GapSum / GapCnt,
\* 30 when there are fewer than two posts
GapSum(posts) ==
    IF Len(posts) >= 2
    THEN SumOver([i \in 1..(Len(posts) - 1) |-> Days(posts[i].date - posts[i + 1].date)],
                 Len(posts) - 1)
    ELSE 30
GapCnt(posts) == IF Len(posts) >= 2 THEN Len(posts) - 1 ELSE 1

\* line 128: days since the newest post, now being in seconds
LastPostDays(posts, now) == Days(now \div SecondsPerHour - posts[1].date)

\* A cut that keeps the last five issues found
TopIssuesLast(issues) == SubSeq(issues, Max2(1, Len(issues) - 4), Len(issues))

\* line 209: issues[:5]
TopIssues(issues) == Take(issues, 5)

\* A list that is returned as long as it was built
TopRecommendationsUncut(recommendations) == recommendations

\* line 210: recommendations[:6]
TopRecommendations(recommendations) == Take(recommendations, 6)

\* A tail of two recommendations
AlwaysRecommendedTwo == << RecTopPosts, RecPostingTimes >>

\* lines 166-168: the recommendations appended whatever the metrics are
AlwaysRecommended == << RecTopPosts, RecPostingTimes, RecVisualQuality >>

\* A tier that is 'low' as soon as one of the two conditions holds
GrowthPotentialEither(rateNum, rateDen, gapSum, gapCnt) ==
    IF RateLt(rateNum, rateDen, 15) \/ IntervalGt(gapSum, gapCnt, 70) THEN "low"
    ELSE IF RateLt(rateNum, rateDen, 30) \/ IntervalGt(gapSum, gapCnt, 40) THEN "medium"
    ELSE "high"

\* lines 170-176: growth_potential
GrowthPotential(rateNum, rateDen, gapSum, gapCnt) ==
    IF RateLt(rateNum, rateDen, 15) /\ IntervalGt(gapSum, gapCnt, 70) THEN "low"
    ELSE IF RateLt(rateNum, rateDen, 30) \/ IntervalGt(gapSum, gapCnt, 40) THEN "medium"
    ELSE "high"

AnalyzeProfile(p, now) ==
    IF ~p.found \/ Len(p.recent_posts) = 0
    THEN ErrorResult(InsufficientData, "")
    ELSE
    LET posts     == p.recent_posts
        n         == Len(posts)
        followers == p.followers
        total_likes    == TotalLikes(posts)
        total_comments == TotalComments(posts)
        rateNum == RateNum(posts)
        rateDen == RateDen(posts, followers)
        gapSum == GapSum(posts)
        gapCnt == GapCnt(posts)
        last_post_days == LastPostDays(posts, now)
        posting_frequency ==
            IF IntervalLe(gapSum, gapCnt, 15) THEN "daily"
            ELSE IF IntervalLe(gapSum, gapCnt, 40) THEN "2-3 times/week"
            ELSE IF IntervalLe(gapSum, gapCnt, 90) THEN "weekly"
            ELSE "irregular"
        \* avg_comments < avg_likes * 0.02  <=>  total_comments * 100 < total_likes * 2
        i1 == AppendIf(<< >>, RateLt(rateNum, rateDen, 20), IssueLowEngagement)
        i2 == AppendIf(i1, IntervalGt(gapSum, gapCnt, 50), IssueInconsistent)
        i3 == AppendIf(i2, last_post_days > 7, IssueInactive)
        i4 == AppendIf(i3, p.following * 10 > p.followers * 15, IssueOverFollowing)
        i5 == AppendIf(i4, total_comments * 100 < total_likes * 2, IssueWeakComments)
        issues == AppendIf(i5, p.total_posts < 50, IssueLimitedLibrary)
        r1 == AppendIf(<< >>, RateLt(rateNum, rateDen, 30), RecHashtags)
        r2 == AppendIf(r1, IntervalGt(gapSum, gapCnt, 30), RecSchedule)
        r3 == AppendIf(r2, total_comments * 100 < total_likes * 5, RecConversation)
        r4 == AppendIf(r3, last_post_days > 3, RecResume)
        recommendations == r4 \o AlwaysRecommended
        growth_potential == GrowthPotential(rateNum, rateDen, gapSum, gapCnt)
        score == RawScore(RateLt(rateNum, rateDen, 20),
                          IntervalGt(gapSum, gapCnt, 50),
                          last_post_days > 7,
                          p.followers > 1000 /\ RateLt(rateNum, rateDen, 25),
                          p.is_business)
    IN  [error |-> NoError,
         username |-> p.username,
         opportunity_score |-> ClampScore(score),
         followers |-> followers,
         following |-> p.following,
         posts |-> p.total_posts,
         is_business |-> p.is_business,
         \* round(engagement_rate, 2), in hundredths of a percent
         engagement_rate |-> IF rateDen > 0 THEN RoundHalfEven(rateNum * 100, rateDen) ELSE 0,
         \* round(avg_likes, 1) and round(avg_comments, 1), in tenths
         average_likes |-> RoundHalfEven(total_likes * 10, n),
         average_comments |-> RoundHalfEven(total_comments * 10, n),
         posting_frequency |-> posting_frequency,
         \* round(avg_posting_interval, 1), in tenths of a day
         avg_posting_interval_days |-> RoundHalfEven(gapSum * 10, gapCnt),
         last_post_days |-> last_post_days,
         growth_potential |-> growth_potential,
         issues |-> TopIssues(issues),
         recommendations |-> TopRecommendations(recommendations),
         analyzed_at |-> IsoFormat(now)]

-----------------------------------------------------------------------------
(* The snapshots the scoring specification analyzes.  A snapshot has n posts  *)
(* of `likes` likes each, the first k of them with one comment; the newest is *)
(* `age` days and `off` hours old; the gaps between adjacent posts alternate  *)
(* between gapA days + off hours and gapB days.                               *)

MaxPosts == 5

LikeVals      == {5, 30, 40, 50, 60}
GapDayVals    == {1, 4, 5, 7, 9, 12}
GapBDayVals   == {2, 12}
AgeDayVals    == {3, 4, 7, 8, 10}
HourOffsets   == {0, 23}
FollowerVals  == {0, 1000, 1001, 2000}
FollowingVals == {1500, 2000}
TotalPostVals == {5, 50}

\* the time analyze_profile reads with datetime.now(), in hours and in seconds
ScoreNow == 2400
StartTime == ScoreNow * SecondsPerHour

RECURSIVE PostDate(_, _, _, _, _)
\* date of the i-th newest post
PostDate(i, age, off, gapA, gapB) ==
    IF i = 1 THEN ScoreNow - (age * HoursPerDay + off)
    ELSE PostDate(i - 1, age, off, gapA, gapB)
         - (IF (i - 1) % 2 = 1 THEN gapA * HoursPerDay + off ELSE gapB * HoursPerDay)

Snapshot(n, likes, k, age, off, gapA, gapB, followers, following, total, business) ==
    [username |-> "a", followers |-> followers, following |-> following,
     total_posts |-> total, is_business |-> business, found |-> TRUE,
     recent_posts |->
        [i \in 1..n |-> [likes |-> likes,
                         comments |-> IF i <= k THEN 1 ELSE 0,
                         date |-> PostDate(i, age, off, gapA, gapB)]]]

Snapshots ==
    { Snapshot(n, l, k, a, o, gA, gB, f, g, t, b) :
        n \in 0..MaxPosts, l \in LikeVals, k \in {0, 1}, a \in AgeDayVals,
        o \in HourOffsets, gA \in GapDayVals, gB \in GapBDayVals, f \in FollowerVals,
        g \in FollowingVals, t \in TotalPostVals, b \in BOOLEAN }

NotAnalyzed == ErrorResult("not analyzed", "")

\* analyzer.analyze_profile(profile_data)
Analyze ==
    /\ analysis = NotAnalyzed
    /\ analysis' = AnalyzeProfile(profile_data, StartTime)
    /\ UNCHANGED << profile_data, repoVars, instagram_profiles, apiVars, schedVars >>

-----------------------------------------------------------------------------
(* DatabaseManager: the analysis repository *)

MaxRepoClock == 1
MaxHistory   == 2

Usernames    == {"a", "b"}
RepoScores   == {50, 80}
MinScoreVals == {0, 60}
LimitVals    == {1, 2}
NoNotes      == ""
NoteVals     == {NoNotes, "called"}
Never        == -1

\* what a call returned: ok is the boolean of mark_contacted, rows the list
\* of a query, count the cleared_count of clear_cache; username, min_score
\* and limit are the arguments of the call and `before` keeps the table as the
\* call found it
NoResponse == [op |-> "none", username |-> "", min_score |-> 0, limit |-> 0,
               notes |-> NoNotes, ok |-> FALSE, rows |-> << >>, count |-> 0,
               before |-> << >>]

\* the caller takes the value returned by the last repository call
Return ==
    /\ response # NoResponse
    /\ response' = NoResponse
    /\ UNCHANGED << nonRepoVars, clock, analysis_history >>

\* time passes between two repository calls
RepoTick ==
    /\ response = NoResponse
    /\ clock < MaxRepoClock
    /\ clock' = clock + 1
    /\ UNCHANGED << nonRepoVars, analysis_history, response >>

\* datetime.utcnow(), the clock of the column defaults: `clock` is the local
\* time of the host, which datetime.now() reads, and sched.utc_offset is what
\* the host's time zone adds to UTC
UtcNow == clock - sched.utc_offset

\* AnalysisHistory(**data) with the column defaults: contacted = False,
\* analyzed_at = datetime.utcnow(); issues and recommendations are the lists
\* of the data, here those of a caller that gives none
NewAnalysisRow(hist, u, score, now) ==
    [id |-> Len(hist) + 1, username |-> u, opportunity_score |-> score,
     analyzed_at |-> now, contacted |-> FALSE, contacted_date |-> Never,
     notes |-> NoNotes, issues |-> << >>, recommendations |-> << >>]

\* add_analysis(data)
AddAnalysis(u, score) ==
    /\ response = NoResponse
    /\ Len(analysis_history) < MaxHistory
    /\ analysis_history' = Append(analysis_history,
                                  NewAnalysisRow(analysis_history, u, score, UtcNow))
    /\ UNCHANGED << nonRepoVars, clock, response >>

RowsOf(hist, u) == { i \in 1..Len(hist) : hist[i].username = u }

\* the subquery: func.max(analyzed_at) ... group_by(username)
LatestAt(hist, u) ==
    CHOOSE t \in { hist[i].analyzed_at : i \in RowsOf(hist, u) } :
        \A i \in RowsOf(hist, u) : hist[i].analyzed_at <= t

\* the join on (username, analyzed_at = latest) and the filter on the score
LatestRows(hist) ==
    { i \in 1..Len(hist) : hist[i].analyzed_at = LatestAt(hist, hist[i].username) }
QualifyingRows(hist, min_score) ==
    { i \in LatestRows(hist) : hist[i].opportunity_score >= min_score }

\* every order of the rows S by descending score (the order of equal scores is
\* the database's choice)
OrderedByScoreDesc(hist, S) ==
    { q \in [1..Cardinality(S) -> S] :
        /\ \A i, j \in 1..Cardinality(S) : i # j => q[i] # q[j]
        /\ \A i, j \in 1..Cardinality(S) :
              i < j => hist[q[i]].opportunity_score >= hist[q[j]].opportunity_score }

\* get_top_opportunities: the possible results, as sequences of rows
TopOpportunities(hist, min_score, limit) ==
    { [k \in 1..Min2(limit, Len(q)) |-> hist[q[k]]] :
        q \in OrderedByScoreDesc(hist, QualifyingRows(hist, min_score)) }

GetTopOpportunities(min_score, limit) ==
    /\ response = NoResponse
    /\ \E rows \in TopOpportunities(analysis_history, min_score, limit) :
          response' = [NoResponse EXCEPT
                          !.op = "get_top_opportunities", !.min_score = min_score,
                          !.limit = limit, !.ok = TRUE, !.rows = rows,
                          !.before = analysis_history]
    /\ UNCHANGED << nonRepoVars, clock, analysis_history >>

\* A lookup that takes any row of the username
MarkTargetsAnyRow(hist, u) == RowsOf(hist, u)

\* A lookup that falls back to the newest row of the table when the username
\* has none
MarkTargetsAnyUser(hist, u) ==
    IF RowsOf(hist, u) # {}
    THEN { i \in RowsOf(hist, u) : hist[i].analyzed_at = LatestAt(hist, u) }
    ELSE { i \in 1..Len(hist) : \A j \in 1..Len(hist) :
                                   hist[j].analyzed_at <= hist[i].analyzed_at }

\* mark_contacted's query: filter(username).order_by(analyzed_at.desc()).first();
\* the rows it can return (one of the newest of the username, none if it has none)
MarkTargets(hist, u) ==
    { i \in RowsOf(hist, u) : hist[i].analyzed_at = LatestAt(hist, u) }

\* An update that also stamps the row with the time of the contact
MarkedRowRestamped(row, notes, now) ==
    [row EXCEPT !.contacted = TRUE, !.contacted_date = now, !.analyzed_at = now,
                !.notes = IF notes # NoNotes THEN notes ELSE @]

\* analysis.contacted = True; analysis.contacted_date = datetime.utcnow();
\* if notes: analysis.notes = notes
MarkedRow(row, notes, now) ==
    [row EXCEPT !.contacted = TRUE, !.contacted_date = now,
                !.notes = IF notes # NoNotes THEN notes ELSE @]

\* mark_contacted(username, notes)
MarkContacted(u, notes) ==
    /\ response = NoResponse
    /\ IF MarkTargets(analysis_history, u) = {}
       THEN /\ response' = [NoResponse EXCEPT
                               !.op = "mark_contacted", !.username = u,
                               !.notes = notes, !.before = analysis_history]
            /\ UNCHANGED analysis_history
       ELSE \E i \in MarkTargets(analysis_history, u) :
            /\ analysis_history' =
                 [analysis_history EXCEPT
                    ![i] = MarkedRow(analysis_history[i], notes, UtcNow)]
            /\ response' = [NoResponse EXCEPT
                               !.op = "mark_contacted", !.username = u, !.ok = TRUE,
                               !.notes = notes, !.before = analysis_history]
    /\ UNCHANGED << nonRepoVars, clock >>
-----------------------------------------------------------------------------
(* DatabaseManager.add_profile, and the data source behind the analyzer *)

Identifiers == {"a", "b", "c"}

NoSummary == [username |-> "", followers |-> 0, following |-> 0, total_posts |-> 0,
              is_business |-> FALSE]

\* add_profile(profile_data): update the row of the username or create it (the
\* columns first_crawled and last_crawled are left out)
AddProfile(profiles, a) ==
    [profiles EXCEPT ![a.username] =
        [username |-> a.username, followers |-> a.followers, following |-> a.following,
         total_posts |-> a.posts, is_business |-> a.is_business]]

\* What store_analysis_in_db / analyze_and_store can meet: both inserts commit,
\* add_profile raises, or add_profile commits and add_analysis raises.
PersistOutcomes == {"stored", "profile failed", "analysis failed"}

ProfilesAfter(outcome, profiles, a) ==
    IF outcome = "profile failed" THEN profiles ELSE AddProfile(profiles, a)

HistoryAfter(outcome, hist, a, now) ==
    IF outcome = "stored"
    THEN Append(hist, [NewAnalysisRow(hist, a.username, a.opportunity_score, now)
                          EXCEPT !.issues = a.issues,
                                 !.recommendations = a.recommendations])
    ELSE hist

\* The profiles Instagram serves for the identifiers: "a" scores 10.0, "b" 5.0
\* and "c" 7.5 while their newest post is at most a week old.
ProfileOf(u) ==
    [(CASE u = "a" -> Snapshot(2, 5, 0, 10, 0, 12, 12, 2000, 1500, 5, TRUE)
        [] u = "b" -> Snapshot(2, 60, 0, 3, 0, 1, 2, 1000, 1500, 50, FALSE)
        [] OTHER   -> Snapshot(2, 5, 0, 3, 0, 1, 2, 2000, 1500, 50, FALSE))
     EXCEPT !.username = u]

EmptyProfileOf(u) == [ProfileOf(u) EXCEPT !.recent_posts = << >>]

\* fetch_profile_data(username): None on any exception (unknown profile,
\* connection error), else the profile, possibly without posts
FetchOutcomes(u) == {NoProfile, EmptyProfileOf(u), ProfileOf(u)}

CouldNotFetch == "Could not fetch profile"

\* analyze_username(username), given what fetch_profile_data returned
AnalyzeUsername(p, u, now) ==
    IF ~p.found THEN ErrorResult(CouldNotFetch, u) ELSE AnalyzeProfile(p, now)

-----------------------------------------------------------------------------
(* api_server.py: the cache, analyze_profile_async and the two endpoints *)

MaxHalfDays == 2
HalfDay     == SecondsPerDay \div 2
CacheSeconds == 86400

TaskIds     == {1, 2, 3}
SingleSlots == {1}
BatchLists  == { << "b", "c", "a" >>, << "a", "a" >> }
BatchMinScores == {0, 60}
SingleIdentifiers == {"a", "b"}

NotCached == ErrorResult("not cached", "")
Pending   == ErrorResult("pending", "")

\* st: free, fetching (in the executor), computed (the executor returned),
\* done (analyze_profile_async returned).  seen and started keep what the cache
\* check read; fetched, wrote and appended what the call did; cleared tells
\* that clear_cache ran while the call was in the executor or about to resume.
FreeTask == [st |-> "free", username |-> "", force_refresh |-> FALSE,
             in_batch |-> FALSE, results |-> Pending, seen |-> NotCached,
             started |-> 0, fetched |-> FALSE, wrote |-> FALSE, appended |-> FALSE,
             cleared |-> FALSE]

NoBatch == [st |-> "idle", usernames |-> << >>, min_opportunity_score |-> 0,
            analyses |-> << >>, success |-> FALSE, total_analyzed |-> 0,
            successful |-> 0, failed |-> 0, results |-> << >>, errors |-> << >>]

\* A freshness test that also accepts an entry exactly 24 hours old
CacheHitInclusive(cache, u, force_refresh, now) ==
    /\ ~force_refresh
    /\ cache[u] # NotCached
    /\ now - FromIsoFormat(cache[u].analyzed_at) <= CacheSeconds

\* A cache check that does not look at the flag
CacheHitWhateverFlag(cache, u, force_refresh, now) ==
    /\ cache[u] # NotCached
    /\ now - FromIsoFormat(cache[u].analyzed_at) < CacheSeconds

\* lines 132-137: not force_refresh and username in analysis_cache and
\* cache_age < 86400
CacheHit(cache, u, force_refresh, now) ==
    /\ ~force_refresh
    /\ cache[u] # NotCached
    /\ now - FromIsoFormat(cache[u].analyzed_at) < CacheSeconds

\* analyze_profile_async up to its first await: the cached payload is
\* returned, or analyze_username is handed to the executor
BeginAnalysis(cache, u, force_refresh, in_batch, now) ==
    [FreeTask EXCEPT
        !.st = IF CacheHit(cache, u, force_refresh, now) THEN "done" ELSE "fetching",
        !.username = u, !.force_refresh = force_refresh, !.in_batch = in_batch,
        !.results = IF CacheHit(cache, u, force_refresh, now) THEN cache[u] ELSE Pending,
        !.seen = cache[u], !.started = now]

LowestFree(i) == tasks[i].st = "free" /\ \A k \in SingleSlots : k < i => tasks[k].st # "free"

\* POST /api/analyze arrives
AnalyzeSingleProfile(i, u, force_refresh) ==
    /\ response = NoResponse
    /\ batch.st = "idle"
    /\ LowestFree(i)
    /\ tasks' = [tasks EXCEPT ![i] = BeginAnalysis(analysis_cache, u, force_refresh,
                                                   FALSE, clock)]
    /\ UNCHANGED << scoreVars, repoVars, instagram_profiles, analysis_cache, batch,
                    schedVars >>

\* the executor thread runs analyzer.analyze_username(username)
RunAnalyzer(i) ==
    /\ response = NoResponse
    /\ tasks[i].st = "fetching"
    /\ \E p \in FetchOutcomes(tasks[i].username) :
          tasks' = [tasks EXCEPT ![i].st = "computed", ![i].fetched = TRUE,
                                 ![i].results = AnalyzeUsername(p, tasks[i].username, clock)]
    /\ UNCHANGED << scoreVars, repoVars, instagram_profiles, analysis_cache, batch,
                    schedVars >>

\* A write that is lost when the cache has been emptied
CacheAfterUnlessEmptied(cache, u, results, outcome) ==
    IF \A v \in DOMAIN cache : cache[v] = NotCached THEN cache
    ELSE [cache EXCEPT ![u] = results]

\* A cache that takes the payload only once it has been stored
CacheAfterIfStored(cache, u, results, outcome) ==
    IF outcome = "stored" THEN [cache EXCEPT ![u] = results] ELSE cache

\* line 145: analysis_cache[username] = results, before and whatever
\* store_analysis_in_db meets
CacheAfter(cache, u, results, outcome) == [cache EXCEPT ![u] = results]

\* A test that lets every result through
WithoutErrorOrNot(results) == TRUE

\* line 143: 'error' not in results
WithoutError(results) == results.error = NoError

\* lines 143-150: the coroutine resumes; a result without 'error' is cached
\* and handed to store_analysis_in_db, which swallows what the inserts raise
StoreResults(i) ==
    LET t == tasks[i]
    IN  /\ response = NoResponse
        /\ t.st = "computed"
        /\ IF WithoutError(t.results)
           THEN \E outcome \in PersistOutcomes :
                     /\ outcome = "stored" => Len(analysis_history) < MaxHistory
                     /\ analysis_cache' =
                            CacheAfter(analysis_cache, t.username, t.results, outcome)
                     /\ instagram_profiles' =
                            ProfilesAfter(outcome, instagram_profiles, t.results)
                     /\ analysis_history' =
                            HistoryAfter(outcome, analysis_history, t.results, UtcNow)
           ELSE UNCHANGED << analysis_cache, instagram_profiles, analysis_history >>
        /\ tasks' = [tasks EXCEPT ![i].st = "done",
                                  ![i].wrote = (analysis_cache'[t.username] = t.results),
                                  ![i].appended = (analysis_history' # analysis_history)]
        /\ UNCHANGED << scoreVars, clock, response, batch, schedVars >>

\* analyze_single_profile answers: 404 with the error text, or the payload
Respond(i) ==
    /\ response = NoResponse
    /\ tasks[i].st = "done"
    /\ ~tasks[i].in_batch
    /\ tasks' = [tasks EXCEPT ![i] = FreeTask]
    /\ UNCHANGED << scoreVars, repoVars, instagram_profiles, analysis_cache, batch,
                    schedVars >>

\* the calls of analyze_profile_async that are between their cache check and
\* their cache write
InFlight == { i \in TaskIds : tasks[i].st \in {"fetching", "computed"} }
ClearedInFlight ==
    [i \in TaskIds |-> IF i \in InFlight THEN [tasks[i] EXCEPT !.cleared = TRUE]
                       ELSE tasks[i]]

\* A clear that counts the entries once the cache is empty
ClearCacheCountsAfter ==
    /\ response = NoResponse
    /\ analysis_cache' = [u \in Identifiers |-> NotCached]
    /\ response' = [NoResponse EXCEPT
                      !.op = "clear_cache", !.ok = TRUE,
                      !.count = Cardinality({ u \in Identifiers :
                                                analysis_cache'[u] # NotCached })]
    /\ tasks' = ClearedInFlight
    /\ UNCHANGED << scoreVars, clock, analysis_history, instagram_profiles, batch,
                    schedVars >>

\* DELETE /api/cache/clear
ClearCache ==
    /\ response = NoResponse
    /\ response' = [NoResponse EXCEPT
                      !.op = "clear_cache", !.ok = TRUE,
                      !.count = Cardinality({ u \in Identifiers :
                                                analysis_cache[u] # NotCached })]
    /\ analysis_cache' = [u \in Identifiers |-> NotCached]
    /\ tasks' = ClearedInFlight
    /\ UNCHANGED << scoreVars, clock, analysis_history, instagram_profiles, batch,
                    schedVars >>

\* time passes on the server
ApiTick ==
    /\ response = NoResponse
    /\ clock - StartTime < MaxHalfDays * HalfDay
    /\ clock' = clock + HalfDay
    /\ UNCHANGED << scoreVars, analysis_history, response, instagram_profiles,
                    apiVars, schedVars >>

\* convert_analysis_to_response: the fields of AnalysisResponse
ConvertAnalysisToResponse(a) ==
    [username |-> a.username, followers |-> a.followers, following |-> a.following,
     posts |-> a.posts, is_business |-> a.is_business,
     engagement_rate |-> a.engagement_rate, average_likes |-> a.average_likes,
     average_comments |-> a.average_comments,
     posting_frequency |-> a.posting_frequency,
     avg_posting_interval_days |-> a.avg_posting_interval_days,
     last_post_days |-> a.last_post_days, growth_potential |-> a.growth_potential,
     issues |-> a.issues, recommendations |-> a.recommendations,
     opportunity_score |-> a.opportunity_score, analyzed_at |-> a.analyzed_at]

\* A sort that leaves the list as it is
SortKeepsOrder(seq) == seq

\* x put behind the elements of the descending list s that score at least as much
InsertByScoreDesc(s, x) ==
    LET k == Cardinality({ i \in 1..Len(s) : s[i].opportunity_score >= x.opportunity_score })
    IN  SubSeq(s, 1, k) \o << x >> \o SubSeq(s, k + 1, Len(s))

RECURSIVE SortByScoreDescUpTo(_, _)
SortByScoreDescUpTo(seq, n) ==
    IF n = 0 THEN << >>
    ELSE InsertByScoreDesc(SortByScoreDescUpTo(seq, n - 1), seq[n])

\* results.sort(key=lambda x: x.opportunity_score, reverse=True): stable
SortByScoreDesc(seq) == SortByScoreDescUpTo(seq, Len(seq))

\* lines 263-277: the loop over zip(request.usernames, analyses)
BatchErrors(usernames, analyses) ==
    LET failed == SelectSeq([i \in 1..Len(usernames) |-> i],
                            LAMBDA i : analyses[i].error # NoError)
    IN  [k \in 1..Len(failed) |-> [username |-> usernames[failed[k]],
                                   error |-> analyses[failed[k]].error]]

BatchResults(usernames, analyses, min_score) ==
    LET kept == SelectSeq([i \in 1..Len(usernames) |-> i],
                          LAMBDA i : /\ analyses[i].error = NoError
                                     /\ analyses[i].opportunity_score >= min_score)
    IN  SortByScoreDesc([k \in 1..Len(kept) |-> ConvertAnalysisToResponse(analyses[kept[k]])])

\* POST /api/batch-analyze arrives: one analyze_profile_async per username,
\* each run up to its first await
BatchAnalyzeProfiles(usernames, min_score) ==
    /\ response = NoResponse
    /\ batch.st = "idle"
    /\ \A i \in TaskIds : tasks[i].st = "free"
    /\ tasks' = [i \in TaskIds |->
                    IF i <= Len(usernames)
                    THEN BeginAnalysis(analysis_cache, usernames[i], FALSE, TRUE, clock)
                    ELSE FreeTask]
    /\ batch' = [NoBatch EXCEPT !.st = "gathering", !.usernames = usernames,
                                !.min_opportunity_score = min_score]
    /\ UNCHANGED << scoreVars, repoVars, instagram_profiles, analysis_cache,
                    schedVars >>

\* asyncio.gather returned: the response is built
BatchRespond ==
    LET n == Len(batch.usernames)
        analyses == [i \in 1..n |-> tasks[i].results]
        results == BatchResults(batch.usernames, analyses, batch.min_opportunity_score)
        errors == BatchErrors(batch.usernames, analyses)
    IN  /\ response = NoResponse
        /\ batch.st = "gathering"
        /\ \A i \in 1..n : tasks[i].st = "done"
        /\ batch' = [batch EXCEPT !.st = "responded", !.analyses = analyses,
                                  !.success = TRUE, !.total_analyzed = n,
                                  !.successful = Len(results), !.failed = Len(errors),
                                  !.results = results, !.errors = errors]
        /\ tasks' = [i \in TaskIds |-> FreeTask]
        /\ UNCHANGED << scoreVars, repoVars, instagram_profiles, analysis_cache,
                        schedVars >>

-----------------------------------------------------------------------------
(* scheduler.py: CrawlerScheduler *)

MaxChecks   == 2
MaxFailures == 1

JobIds      == {1, 2}
JobOrder    == << 1, 2 >>
Frequencies == {"daily", "weekly", "monthly", "hourly"}
NoUsername  == ""

\* table businesses: what search_businesses can match
Businesses ==
    << [category |-> "cafe", instagram_username |-> "a"],
       [category |-> "cafe", instagram_username |-> NoUsername],
       [category |-> "cafe", instagram_username |-> "b"],
       [category |-> "gym",  instagram_username |-> "c"] >>

\* search_businesses(category=...): the rows of the category
SearchBusinesses(category) ==
    SelectSeq(Businesses, LAMBDA b : b.category = category)

InList(j, list) == \E k \in 1..Len(list) : list[k] = j

\* get_active_jobs(): filter_by(is_active=True), as a list of ids
GetActiveJobs(jobs) == SelectSeq(JobOrder, LAMBDA j : jobs[j].is_active)

\* A period table in which a month has 31 days
CalculateNextRunLongMonth(frequency, now) ==
    IF frequency = "daily" THEN now + SecondsPerDay
    ELSE IF frequency = "weekly" THEN now + 7 * SecondsPerDay
    ELSE IF frequency = "monthly" THEN now + 31 * SecondsPerDay
    ELSE now + 7 * SecondsPerDay

\* _calculate_next_run(frequency), now being its own datetime.now()
CalculateNextRun(frequency, now) ==
    IF frequency = "daily" THEN now + SecondsPerDay
    ELSE IF frequency = "weekly" THEN now + 7 * SecondsPerDay
    ELSE IF frequency = "monthly" THEN now + 30 * SecondsPerDay
    ELSE now + 7 * SecondsPerDay

\* A due test that takes a job up to an hour early
IsDueWithinTheHour(job, now) ==
    job.next_run = Never \/ job.next_run <= now + SecondsPerHour

\* A due test that lets a job wait until its time has passed
IsDueStrictly(job, now) == job.next_run = Never \/ job.next_run < now

\* line 158: job.next_run is None or job.next_run <= now
IsDue(job, now) == job.next_run = Never \/ job.next_run <= now

\* An exception handler that pushes the job to the next day
JobAfterFailurePostponed(job, now) == [job EXCEPT !.next_run = now + SecondsPerDay]

\* lines 133-134: the handler logs; nothing of the job is written
JobAfterFailure(job, now) == job

\* the two datetime.now() of the update can be apart
ReadGaps == {0, 1}
SleepBetweenProfiles == 5
LoopSleep == 60

\* A loop that lets a task wait for the tick after its time
WakeTimeTickAfter(t, next_check) ==
    IF next_check <= t + LoopSleep THEN t + LoopSleep
    ELSE t + LoopSleep * ((next_check - t) \div LoopSleep + 1)

\* the time at which the loop of start() finds a task pending: the first of
\* t + 60, t + 120, ... that is not before next_check
WakeTime(t, next_check) ==
    IF next_check <= t + LoopSleep THEN t + LoopSleep
    ELSE t + LoopSleep * ((next_check - t + LoopSleep - 1) \div LoopSleep)

NewJob(id, category, frequency, min_score, active, next_run) ==
    [id |-> id, business_category |-> category, frequency |-> frequency,
     min_opportunity_score |-> min_score, is_active |-> active,
     last_run |-> Never, next_run |-> next_run, profiles_found |-> 0,
     usernames_to_monitor |-> << >>]

\* the row of a job whose last run completed at t and analyzed nothing (lines
\* 116-127 with both clock reads at t)
AfterRunAt(job, t) ==
    [job EXCEPT !.last_run = t, !.next_run = CalculateNextRun(job.frequency, t)]

\* a job row with a list in its column usernames_to_monitor
Monitoring(job, usernames) == [job EXCEPT !.usernames_to_monitor = usernames]

\* the day and the time of day of a time; the day of StartTime is taken to be
\* a Monday (weekday 0)
DayOf(t)     == t \div SecondsPerDay
TimeOfDay(t) == t % SecondsPerDay
Weekday(t)   == (DayOf(t) - DayOf(StartTime)) % 7
SweepAt      == 9 * SecondsPerHour
ReportAt     == 8 * SecondsPerHour

\* every().day.at(...): the first time after t with the time of day given
NextDayAt(t, at) ==
    IF TimeOfDay(t) < at THEN DayOf(t) * SecondsPerDay + at
    ELSE (DayOf(t) + 1) * SecondsPerDay + at

\* every().monday.at(...): the first time after t on a Monday with the time of
\* day given
NextMondayAt(t, at) ==
    LET ahead == CHOOSE k \in 0..7 :
                    /\ Weekday((DayOf(t) + k) * SecondsPerDay) = 0
                    /\ (DayOf(t) + k) * SecondsPerDay + at > t
                    /\ \A i \in 0..(k - 1) :
                          ~ /\ Weekday((DayOf(t) + i) * SecondsPerDay) = 0
                            /\ (DayOf(t) + i) * SecondsPerDay + at > t
    IN  (DayOf(t) + ahead) * SecondsPerDay + at

\* the tasks registered in start(), in the order of their registration
Tasks == << "check", "sweep", "report" >>

\* the time at which a task is to run next
NextRunOf(s, task) ==
    CASE task = "check"  -> s.next_check
      [] task = "sweep"  -> s.next_sweep
      [] task = "report" -> s.next_report

\* x put into the list of tasks s, which is ordered by the time of the next run
InsertByNextRun(sch, s, x) ==
    LET k == Cardinality({ i \in 1..Len(s) : NextRunOf(sch, s[i]) <= NextRunOf(sch, x) })
    IN  SubSeq(s, 1, k) \o << x >> \o SubSeq(s, k + 1, Len(s))

RECURSIVE SortByNextRunUpTo(_, _, _)
SortByNextRunUpTo(sch, seq, n) ==
    IF n = 0 THEN << >>
    ELSE InsertByNextRun(sch, SortByNextRunUpTo(sch, seq, n - 1), seq[n])

\* schedule.run_pending(): the tasks whose time has come at t, sorted by the
\* time of their next run
Runnable(s, t) ==
    LET due == SelectSeq(Tasks, LAMBDA task : NextRunOf(s, task) <= t)
    IN  SortByNextRunUpTo(s, due, Len(due))

\* the first time a task is to run
EarliestRun(s) == Min2(s.next_check, Min2(s.next_sweep, s.next_report))

NoInterrupt == [username |-> NoUsername, upserted |-> FALSE, appended |-> FALSE]
NoFetch     == [username |-> NoUsername, cached |-> FALSE, returned |-> FALSE]

\* pc: init, check (in the loop of check_and_run_jobs), search and targets (in
\* run_crawl_job), sleep and pending (in the loop of start); checks and
\* failures count the calls of check_and_run_jobs and the runs that raised
\* next_check, next_sweep and next_report are the times of the three tasks,
\* runnable the tasks run_pending still has to run, monitored the usernames the
\* sweep still has to analyze.  Kept for the claims: idle_from and woke (when
\* the last task returned, when the loop last woke), prev_call and last_call
\* (the times of the last two calls of analyze_username in the current loop),
\* busy and overlapped (what is in progress, and whether anything began while
\* something else was), last_fetch (the last call of analyze_username),
\* report (what the weekly report listed) and interrupted (the analysis a
\* KeyboardInterrupt cut short); utc_offset is the time zone of the host.
SchedInit ==
    [pc |-> "init", now |-> 0, jobs |-> << >>, job |-> 0, businesses |-> << >>,
     analyzed_count |-> 0, opportunities_found |-> 0, next_check |-> 0,
     scheduled |-> FALSE, checks |-> 0, failures |-> 0,
     next_sweep |-> 0, next_report |-> 0, runnable |-> << >>, monitored |-> << >>,
     idle_from |-> Never, woke |-> Never, prev_call |-> Never, last_call |-> Never,
     busy |-> {}, overlapped |-> FALSE, last_fetch |-> NoFetch, report |-> << >>,
     interrupted |-> NoInterrupt, utc_offset |-> 0]

\* per job: the number of runs begun, the check that began the last one and
\* the check that began the one before, the row as that run found it, how it
\* ended, the two clock reads of its update, the rows of analysis_history it
\* appended (rows_from + 1 .. rows_to), the number of its targets that have an
\* identifier, the calls of analyze_and_store it made, how many of them
\* returned None and for which reasons, and when it started: the time of the
\* start, the time the task before it returned, the time its check was to run
\* and the time the loop woke for it
NoRun(job) ==
    [runs |-> 0, check |-> 0, prev_check |-> 0, before |-> job, outcome |-> "none",
     first_read |-> Never, second_read |-> Never, rows_from |-> 0, rows_to |-> 0,
     targets |-> 0, calls |-> 0, failed |-> 0, kinds |-> {},
     started |-> Never, idle_from |-> Never, pending_at |-> Never, woke |-> Never]

\* start(): the three tasks are registered (lines 214-216) and
\* check_and_run_jobs is called (line 219)
Start ==
    /\ sched.pc = "init"
    /\ sched' = [sched EXCEPT !.pc = "check", !.now = clock,
                              !.jobs = GetActiveJobs(crawl_jobs),
                              !.next_check = clock + SecondsPerHour,
                              !.next_sweep = NextDayAt(clock, SweepAt),
                              !.next_report = NextMondayAt(clock, ReportAt),
                              !.scheduled = FALSE, !.checks = 1]
    /\ UNCHANGED << scoreVars, repoVars, instagram_profiles, apiVars, crawl_jobs, job_log >>

\* a task has returned: run_pending goes on with the tasks that are left, or
\* the loop sleeps
AfterTask(s, t) ==
    [s EXCEPT !.pc = IF s.scheduled /\ Len(s.runnable) > 1 THEN "pending" ELSE "sleep",
              !.runnable = IF s.scheduled THEN Tail(@) ELSE @,
              !.scheduled = FALSE,
              !.idle_from = t]

\* time.sleep(60) until schedule.run_pending() finds a task whose time has come
Sleep ==
    LET woke == WakeTime(clock, EarliestRun(sched))
    IN  /\ sched.pc = "sleep"
        /\ InList("check", Runnable(sched, woke)) => sched.checks < MaxChecks
        /\ clock' = woke
        /\ sched' = [sched EXCEPT !.pc = "pending", !.woke = woke,
                                  !.runnable = Runnable(sched, woke)]
        /\ UNCHANGED << scoreVars, analysis_history, response, instagram_profiles,
                        apiVars, crawl_jobs, job_log >>

\* check_and_run_jobs, lines 153-154: the active jobs and now are read once
CheckAndRunJobs ==
    /\ sched.pc = "pending"
    /\ Head(sched.runnable) = "check"
    /\ sched' = [sched EXCEPT !.pc = "check", !.now = clock,
                              !.jobs = GetActiveJobs(crawl_jobs),
                              !.scheduled = TRUE, !.checks = @ + 1]
    /\ UNCHANGED << scoreVars, repoVars, instagram_profiles, apiVars, crawl_jobs, job_log >>

\* A loop that starts the run of a due job and goes on without waiting for it
ExamineJobNoWait ==
    /\ sched.pc = "check"
    /\ sched.jobs # << >>
    /\ LET j == Head(sched.jobs)
       IN  /\ sched' = [sched EXCEPT
                          !.jobs = Tail(sched.jobs),
                          !.busy = IF IsDue(crawl_jobs[j], sched.now)
                                   THEN @ \cup {"job"} ELSE @,
                          !.overlapped = @ \/ (IsDue(crawl_jobs[j], sched.now)
                                                 /\ sched.busy # {})]
           /\ job_log' = IF IsDue(crawl_jobs[j], sched.now)
                         THEN [job_log EXCEPT ![j].runs = @ + 1,
                                              ![j].prev_check = job_log[j].check,
                                              ![j].check = sched.checks,
                                              ![j].outcome = "running"]
                         ELSE job_log
    /\ UNCHANGED << scoreVars, repoVars, instagram_profiles, apiVars, crawl_jobs >>

\* lines 156-159: the next job of the list is run if it is due
ExamineJob ==
    /\ sched.pc = "check"
    /\ sched.jobs # << >>
    /\ LET j == Head(sched.jobs)
       IN  IF IsDue(crawl_jobs[j], sched.now)
           THEN /\ sched' = [sched EXCEPT !.pc = "search", !.job = j,
                                          !.jobs = Tail(sched.jobs),
                                          !.busy = @ \cup {"job"},
                                          !.overlapped = @ \/ sched.busy # {}]
                /\ job_log' = [job_log EXCEPT ![j] =
                                 [NoRun(crawl_jobs[j]) EXCEPT
                                    !.runs = job_log[j].runs + 1,
                                    !.check = sched.checks,
                                    !.prev_check = job_log[j].check,
                                    !.outcome = "running",
                                    !.started = clock,
                                    !.idle_from = sched.idle_from,
                                    !.pending_at =
                                        IF sched.scheduled THEN sched.next_check
                                        ELSE Never,
                                    !.woke = sched.woke,
                                    !.rows_from = Len(analysis_history),
                                    !.rows_to = Len(analysis_history)]]
           ELSE /\ sched' = [sched EXCEPT !.jobs = Tail(sched.jobs)]
                /\ UNCHANGED job_log
    /\ UNCHANGED << scoreVars, repoVars, instagram_profiles, apiVars, crawl_jobs >>

\* check_and_run_jobs returns; schedule sets the next hourly run
FinishCheck ==
    /\ sched.pc = "check"
    /\ sched.jobs = << >>
    /\ sched' = [AfterTask(sched, clock) EXCEPT
                    !.next_check = IF sched.scheduled
                                   THEN clock + SecondsPerHour ELSE @]
    /\ UNCHANGED << scoreVars, repoVars, instagram_profiles, apiVars, crawl_jobs, job_log >>

\* the businesses of a list that have an instagram_username
WithUsername(businesses) ==
    SelectSeq(businesses, LAMBDA b : b.instagram_username # NoUsername)

\* lines 86-96: search_businesses returns the targets
ResolveTargets ==
    /\ sched.pc = "search"
    /\ LET businesses == SearchBusinesses(crawl_jobs[sched.job].business_category)
       IN  /\ sched' = [sched EXCEPT !.pc = "targets", !.businesses = businesses,
                                      !.analyzed_count = 0, !.opportunities_found = 0,
                                      !.prev_call = Never, !.last_call = Never]
           /\ job_log' = [job_log EXCEPT
                             ![sched.job].targets = Len(WithUsername(businesses))]
    /\ UNCHANGED << scoreVars, repoVars, instagram_profiles, apiVars, crawl_jobs >>

\* A handler after which the loop of check_and_run_jobs is left
RemainingJobsNone(jobs) == << >>

\* line 159: run_crawl_job has returned; the loop goes on with the jobs that
\* are left
RemainingJobs(jobs) == jobs

\* the handler of lines 133-134, reached from the pc given
RunFails(pc) ==
    /\ sched.pc = pc
    /\ sched.failures < MaxFailures
    /\ crawl_jobs' = [crawl_jobs EXCEPT ![sched.job] = JobAfterFailure(@, clock)]
    /\ job_log' = [job_log EXCEPT ![sched.job].outcome = "failed",
                                  ![sched.job].rows_to = Len(analysis_history)]
    /\ sched' = [sched EXCEPT !.pc = "check", !.job = 0, !.businesses = << >>,
                              !.jobs = RemainingJobs(@), !.failures = @ + 1,
                              !.busy = @ \ {"job"}]
    /\ UNCHANGED << scoreVars, repoVars, instagram_profiles, apiVars >>

\* search_businesses raises
ResolveTargetsFails == RunFails("search")

\* A loop that does not leave a business without instagram_username
SkipBusinessStays ==
    /\ sched.pc = "targets"
    /\ sched.businesses # << >>
    /\ Head(sched.businesses).instagram_username = NoUsername
    /\ UNCHANGED vars

\* lines 99-100: a business without instagram_username is passed over
SkipBusiness ==
    /\ sched.pc = "targets"
    /\ sched.businesses # << >>
    /\ Head(sched.businesses).instagram_username = NoUsername
    /\ sched' = [sched EXCEPT !.businesses = Tail(@)]
    /\ UNCHANGED << scoreVars, repoVars, instagram_profiles, apiVars, crawl_jobs, job_log >>

\* A result that is returned although an insert raised
ReturnedUnlessError(a, outcome) == a.error = NoError

\* analyze_and_store returns the analysis only if it has no 'error' (line 40)
\* and both inserts committed (lines 53, 71); otherwise None
Returned(a, outcome) == a.error = NoError /\ outcome = "stored"

\* the way analyze_and_store failed: by the return of line 42 (the analysis
\* carries 'error') or by the handler of lines 76-78 (an insert raised)
FailureKind(a, outcome) ==
    IF a.error # NoError THEN "error"
    ELSE IF outcome # "stored" THEN "exception"
    ELSE "none"

\* A loop that goes on to the next profile at once
AfterProfileNoSleep(t) == t

\* line 114, line 171: time.sleep(5) after a profile
AfterProfile(t) == t + SleepBetweenProfiles

\* what is kept of a call of analyze_username(u) at time t: the times of the
\* last two calls of the loop, and whether analysis_cache held a fresh entry
CallAt(s, u, t, returned) ==
    [s EXCEPT !.prev_call = s.last_call, !.last_call = t,
              !.last_fetch = [username |-> u,
                              cached |-> CacheHit(analysis_cache, u, FALSE, t),
                              returned |-> returned]]

\* lines 103-114: analyze_and_store(username), the two counters, time.sleep(5)
AnalyzeAndStore ==
    /\ sched.pc = "targets"
    /\ sched.businesses # << >>
    /\ Head(sched.businesses).instagram_username # NoUsername
    /\ LET u == Head(sched.businesses).instagram_username
           job == crawl_jobs[sched.job]
       IN  \E p \in FetchOutcomes(u), outcome \in PersistOutcomes :
              LET a == AnalyzeUsername(p, u, clock)
                  returned == Returned(a, outcome)
                  opportunity == returned /\ a.opportunity_score >= job.min_opportunity_score
              IN  /\ a.error # NoError => outcome = "profile failed"
                  /\ IF a.error = NoError
                     THEN /\ instagram_profiles' =
                                 ProfilesAfter(outcome, instagram_profiles, a)
                          /\ analysis_history' =
                                 HistoryAfter(outcome, analysis_history, a, UtcNow)
                     ELSE UNCHANGED << instagram_profiles, analysis_history >>
                  /\ sched' = [CallAt(sched, u, clock, returned) EXCEPT
                                 !.businesses = Tail(@),
                                 !.analyzed_count = IF returned THEN @ + 1 ELSE @,
                                 !.opportunities_found = IF opportunity THEN @ + 1 ELSE @]
                  /\ job_log' = [job_log EXCEPT
                                   ![sched.job].calls = @ + 1,
                                   ![sched.job].failed =
                                       IF FailureKind(a, outcome) = "none" THEN @ ELSE @ + 1,
                                   ![sched.job].kinds =
                                       @ \cup ({FailureKind(a, outcome)} \ {"none"})]
    /\ clock' = AfterProfile(clock)
    /\ UNCHANGED << scoreVars, response, apiVars, crawl_jobs >>

\* lines 117-127: the update of the job and the commit
UpdateJob ==
    /\ sched.pc = "targets"
    /\ sched.businesses = << >>
    /\ \E gap \in ReadGaps :
          /\ crawl_jobs' = [crawl_jobs EXCEPT
                ![sched.job].last_run = clock,
                ![sched.job].next_run =
                    CalculateNextRun(crawl_jobs[sched.job].frequency, clock + gap),
                ![sched.job].profiles_found = sched.analyzed_count]
          /\ job_log' = [job_log EXCEPT ![sched.job].outcome = "completed",
                                        ![sched.job].first_read = clock,
                                        ![sched.job].second_read = clock + gap,
                                        ![sched.job].rows_to = Len(analysis_history)]
          /\ clock' = clock + gap
    /\ sched' = [sched EXCEPT !.pc = "check", !.job = 0, !.busy = @ \ {"job"}]
    /\ UNCHANGED << scoreVars, analysis_history, response, instagram_profiles, apiVars >>

\* the update or the commit raises
UpdateJobFails ==
    /\ sched.businesses = << >>
    /\ RunFails("targets")

RECURSIVE MonitoredUpTo(_, _, _)
MonitoredUpTo(jobs, list, n) ==
    IF n = 0 THEN << >>
    ELSE MonitoredUpTo(jobs, list, n - 1) \o jobs[list[n]].usernames_to_monitor

\* lines 167-169: the usernames_to_monitor of the active jobs, job after job
MonitoredUsernames(jobs) ==
    MonitoredUpTo(jobs, GetActiveJobs(jobs), Len(GetActiveJobs(jobs)))

\* analyze_monitored_profiles is called by run_pending (lines 163-165)
AnalyzeMonitoredProfiles ==
    /\ sched.pc = "pending"
    /\ Head(sched.runnable) = "sweep"
    /\ sched' = [sched EXCEPT !.pc = "sweep", !.scheduled = TRUE,
                              !.monitored = MonitoredUsernames(crawl_jobs),
                              !.prev_call = Never, !.last_call = Never,
                              !.busy = @ \cup {"sweep"},
                              !.overlapped = @ \/ sched.busy # {}]
    /\ UNCHANGED << scoreVars, repoVars, instagram_profiles, apiVars, crawl_jobs, job_log >>

\* lines 170-171: analyze_and_store(username); time.sleep(5)
SweepProfile ==
    /\ sched.pc = "sweep"
    /\ sched.monitored # << >>
    /\ LET u == Head(sched.monitored)
       IN  \E p \in FetchOutcomes(u), outcome \in PersistOutcomes :
              LET a == AnalyzeUsername(p, u, clock)
              IN  /\ a.error # NoError => outcome = "profile failed"
                  /\ IF a.error = NoError
                     THEN /\ instagram_profiles' =
                                 ProfilesAfter(outcome, instagram_profiles, a)
                          /\ analysis_history' =
                                 HistoryAfter(outcome, analysis_history, a, UtcNow)
                     ELSE UNCHANGED << instagram_profiles, analysis_history >>
                  /\ sched' = [CallAt(sched, u, clock, Returned(a, outcome)) EXCEPT
                                 !.monitored = Tail(@)]
    /\ clock' = AfterProfile(clock)
    /\ UNCHANGED << scoreVars, response, apiVars, crawl_jobs, job_log >>

\* analyze_monitored_profiles returns; schedule sets the next day's run
FinishSweep ==
    /\ sched.pc = "sweep"
    /\ sched.monitored = << >>
    /\ sched' = [AfterTask(sched, clock) EXCEPT
                    !.next_sweep = NextDayAt(clock, SweepAt),
                    !.busy = @ \ {"sweep"}]
    /\ UNCHANGED << scoreVars, repoVars, instagram_profiles, apiVars, crawl_jobs, job_log >>

ReportMinScore == 60
ReportLimit    == 50
ReportLines    == 20

\* lines 178, 183-186: analyzed_at (a value of datetime.utcnow) is compared
\* with one_week_ago = datetime.now() - 7 days; not contacted
RecentOpportunities(rows, now) ==
    SelectSeq(rows, LAMBDA r : /\ r.analyzed_at >= now - 7 * SecondsPerDay
                               /\ ~r.contacted)

\* generate_weekly_report is called by run_pending and returns; it writes
\* nothing but the log
GenerateWeeklyReport ==
    /\ sched.pc = "pending"
    /\ Head(sched.runnable) = "report"
    /\ \E rows \in TopOpportunities(analysis_history, ReportMinScore, ReportLimit) :
          sched' = [AfterTask([sched EXCEPT !.scheduled = TRUE], clock) EXCEPT
                      !.next_report = NextMondayAt(clock, ReportAt),
                      !.report = Take(RecentOpportunities(rows, clock), ReportLines),
                      !.overlapped = @ \/ sched.busy # {}]
    /\ UNCHANGED << scoreVars, repoVars, instagram_profiles, apiVars, crawl_jobs, job_log >>

\* where a KeyboardInterrupt can reach the program
Interruptible == sched.pc \notin {"init", "stopped"}

\* an analysis is about to begin: the username it is for
NextUsername ==
    IF sched.pc = "targets" /\ WithUsername(sched.businesses) # << >>
    THEN Head(WithUsername(sched.businesses)).instagram_username
    ELSE IF sched.pc = "sweep" /\ sched.monitored # << >>
    THEN Head(sched.monitored)
    ELSE NoUsername

\* Ctrl+C between two steps: KeyboardInterrupt is no Exception, so neither
\* handler (lines 76, 133) catches it and the scheduler stops (lines 229-232)
Interrupt ==
    /\ Interruptible
    /\ sched' = [sched EXCEPT !.pc = "stopped"]
    /\ UNCHANGED << scoreVars, repoVars, instagram_profiles, apiVars, crawl_jobs, job_log >>

\* Ctrl+C inside analyze_and_store: while analyze_username runs (line 38), or
\* after add_profile has committed and before add_analysis has (lines 53-71)
InterruptAnalysis ==
    /\ Interruptible
    /\ NextUsername # NoUsername
    /\ \E p \in FetchOutcomes(NextUsername), upserted \in BOOLEAN :
          LET a == AnalyzeUsername(p, NextUsername, clock)
          IN  /\ upserted => a.error = NoError
              /\ instagram_profiles' =
                     IF upserted THEN AddProfile(instagram_profiles, a)
                     ELSE instagram_profiles
              /\ sched' = [sched EXCEPT
                             !.pc = "stopped",
                             !.interrupted = [username |-> NextUsername,
                                              upserted |-> upserted,
                                              appended |-> FALSE]]
    /\ UNCHANGED << scoreVars, repoVars, apiVars, crawl_jobs, job_log >>

-----------------------------------------------------------------------------
(* Specifications *)

ScoreIdle == profile_data = NoProfile /\ analysis = NotAnalyzed
RepoIdle  == clock = 0 /\ analysis_history = << >> /\ response = NoResponse
IdleJobs == [j \in JobIds |-> NewJob(j, "", "weekly", 0, FALSE, Never)]
ProfilesIdle == instagram_profiles = [u \in Identifiers |-> NoSummary]
ApiIdle ==
    /\ analysis_cache = [u \in Identifiers |-> NotCached]
    /\ tasks = [i \in TaskIds |-> FreeTask]
    /\ batch = NoBatch
SchedIdle ==
    /\ crawl_jobs = IdleJobs
    /\ sched = SchedInit
    /\ job_log = [j \in JobIds |-> NoRun(IdleJobs[j])]

\* scoring: one snapshot of the family is analyzed
ScoreInit ==
    /\ profile_data \in Snapshots
    /\ analysis = NotAnalyzed
    /\ RepoIdle /\ ProfilesIdle /\ ApiIdle /\ SchedIdle

ScoreNext == Analyze

SpecScore == ScoreInit /\ [][ScoreNext]_vars

\* repository: rows are appended and queried while the clock advances
RepoInit == ScoreIdle /\ RepoIdle /\ ProfilesIdle /\ ApiIdle /\ SchedIdle

RepoNext ==
    \/ RepoTick
    \/ Return
    \/ \E u \in Usernames, sc \in RepoScores : AddAnalysis(u, sc)
    \/ \E m \in MinScoreVals, l \in LimitVals : GetTopOpportunities(m, l)
    \/ \E u \in Usernames, n \in NoteVals : MarkContacted(u, n)

SpecRepo == RepoInit /\ [][RepoNext]_vars

\* lead management: rows are appended and marked as contacted while the
\* clock advances
ContactNext ==
    \/ RepoTick
    \/ Return
    \/ \E u \in Usernames, sc \in RepoScores : AddAnalysis(u, sc)
    \/ \E u \in Usernames, n \in NoteVals : MarkContacted(u, n)

SpecContact == RepoInit /\ [][ContactNext]_vars

\* interactive path: requests arrive, executor threads run, time passes
ApiInit ==
    /\ ScoreIdle
    /\ clock = StartTime /\ analysis_history = << >> /\ response = NoResponse
    /\ ProfilesIdle /\ ApiIdle /\ SchedIdle

ApiNext ==
    \/ ApiTick
    \/ Return
    \/ ClearCache
    \/ \E i \in SingleSlots, u \in SingleIdentifiers, f \in BOOLEAN :
          AnalyzeSingleProfile(i, u, f)
    \/ \E i \in TaskIds : RunAnalyzer(i)
    \/ \E i \in TaskIds : StoreResults(i)
    \/ \E i \in TaskIds : Respond(i)

SpecApi == ApiInit /\ [][ApiNext]_vars

\* interactive path: one batch arrives and is answered while executor threads
\* run and time passes
BatchNext ==
    \/ ApiTick
    \/ \E i \in TaskIds : RunAnalyzer(i)
    \/ \E i \in TaskIds : StoreResults(i)
    \/ \E l \in BatchLists, m \in BatchMinScores : BatchAnalyzeProfiles(l, m)
    \/ BatchRespond

SpecBatch == ApiInit /\ [][BatchNext]_vars

\* scheduled path: the scheduler runs over a table of two jobs
FirstJobs ==
    { NewJob(1, "cafe", "daily", 60, TRUE, Never),
      NewJob(1, "cafe", "weekly", 60, TRUE, StartTime),
      NewJob(1, "cafe", "monthly", 60, TRUE, StartTime + 1),
      NewJob(1, "cafe", "hourly", 60, TRUE, StartTime - SecondsPerDay),
      AfterRunAt(NewJob(1, "cafe", "daily", 60, TRUE, Never),
                 StartTime + 2 * SecondsPerHour - SecondsPerDay),
      NewJob(1, "cafe", "weekly", 60, FALSE, Never),
      NewJob(1, "cafe", "daily", 60, FALSE, StartTime - SecondsPerDay) }
SecondJobs ==
    { NewJob(2, "gym", "daily", 60, TRUE, Never),
      NewJob(2, "gym", "weekly", 80, FALSE, StartTime),
      AfterRunAt(NewJob(2, "gym", "monthly", 80, TRUE, Never),
                 StartTime + SecondsPerHour - 30 * SecondsPerDay) }

SchedulerInit ==
    /\ ScoreIdle
    /\ clock = StartTime /\ analysis_history = << >> /\ response = NoResponse
    /\ ProfilesIdle /\ ApiIdle
    /\ \E j1 \in FirstJobs, j2 \in SecondJobs :
          /\ crawl_jobs = [j \in JobIds |-> IF j = 1 THEN j1 ELSE j2]
          /\ job_log = [j \in JobIds |-> NoRun(IF j = 1 THEN j1 ELSE j2)]
    /\ sched = SchedInit

SchedulerNext ==
    \/ Start
    \/ Sleep
    \/ CheckAndRunJobs
    \/ ExamineJob
    \/ FinishCheck
    \/ ResolveTargets
    \/ ResolveTargetsFails
    \/ SkipBusiness
    \/ AnalyzeAndStore
    \/ UpdateJob
    \/ UpdateJobFails

SpecSched == SchedulerInit /\ [][SchedulerNext]_vars

\* the runs of two jobs to their end, in the check of start(): both jobs are
\* due, and one of the three targets of the first has no identifier.
\* run_crawl_job is one synchronous call in the scheduler's only thread, so a
\* run that has begun goes on, statement after statement, as long as the
\* calls it makes return.
RunsInit ==
    /\ ScoreIdle
    /\ clock = StartTime /\ analysis_history = << >> /\ response = NoResponse
    /\ ProfilesIdle /\ ApiIdle
    /\ crawl_jobs = [j \in JobIds |->
                        IF j = 1 THEN NewJob(1, "cafe", "daily", 60, TRUE, Never)
                        ELSE AfterRunAt(NewJob(2, "gym", "monthly", 80, TRUE, Never),
                                        StartTime - 30 * SecondsPerDay)]
    /\ job_log = [j \in JobIds |-> NoRun(crawl_jobs[j])]
    /\ sched = SchedInit

RunStep ==
    \/ ResolveTargets
    \/ ResolveTargetsFails
    \/ SkipBusiness
    \/ AnalyzeAndStore
    \/ UpdateJob
    \/ UpdateJobFails

RunsNext ==
    \/ Start
    \/ ExamineJob
    \/ FinishCheck
    \/ ResolveTargets
    \/ ResolveTargetsFails
    \/ SkipBusiness
    \/ AnalyzeAndStore
    \/ UpdateJob
    \/ UpdateJobFails

SpecRuns == RunsInit /\ [][RunsNext]_vars /\ WF_vars(RunStep)

\* scheduled path around a Monday morning: the report of 08:00 and the sweep of
\* 09:00 fall between and after the checks, Ctrl+C can arrive at any time, and
\* the API server has cached an analysis of "a" an hour before
DriverStart == StartTime + ReportAt - 15
DriverJobs ==
    { << Monitoring(NewJob(1, "cafe", "daily", 60, TRUE, Never), << "b" >>),
         Monitoring(NewJob(2, "gym", "weekly", 60, TRUE, DriverStart + SecondsPerHour),
                    << "c", "a" >>) >>,
      << Monitoring(NewJob(1, "cafe", "weekly", 60, TRUE, DriverStart + 1), << >>),
         Monitoring(NewJob(2, "gym", "daily", 80, FALSE, Never), << "c" >>) >> }
DriverCache ==
    [u \in Identifiers |->
        IF u = "a" THEN AnalyzeProfile(ProfileOf("a"), DriverStart - SecondsPerHour)
        ELSE NotCached]

DriverInit ==
    /\ ScoreIdle
    /\ clock = DriverStart /\ analysis_history = << >> /\ response = NoResponse
    /\ ProfilesIdle
    /\ analysis_cache = DriverCache
    /\ tasks = [i \in TaskIds |-> FreeTask] /\ batch = NoBatch
    /\ \E table \in DriverJobs :
          /\ crawl_jobs = [j \in JobIds |-> table[j]]
          /\ job_log = [j \in JobIds |-> NoRun(table[j])]
    /\ sched = SchedInit

DriverNext ==
    \/ Start
    \/ Sleep
    \/ CheckAndRunJobs
    \/ ExamineJob
    \/ FinishCheck
    \/ ResolveTargets
    \/ ResolveTargetsFails
    \/ SkipBusiness
    \/ AnalyzeAndStore
    \/ UpdateJob
    \/ UpdateJobFails
    \/ AnalyzeMonitoredProfiles
    \/ SweepProfile
    \/ FinishSweep
    \/ GenerateWeeklyReport
    \/ Interrupt
    \/ InterruptAnalysis

SpecDriver == DriverInit /\ [][DriverNext]_vars

\* weekly report: the scheduler starts on a Monday at 07:59:45 with no active
\* job, on a host in one of three time zones, over a table whose rows were
\* appended a day, 7 days or 7 days and an hour before and of which some were
\* marked as contacted
HostUtcOffsets == { -8 * SecondsPerHour, 0, SecondsPerHour }
ReportAges == { SecondsPerDay, 7 * SecondsPerDay, 7 * SecondsPerDay + SecondsPerHour }
ReportRowKinds ==
    [username : Usernames, score : RepoScores, age : ReportAges, contacted : BOOLEAN]

\* the table add_analysis and mark_contacted made of the rows q before utcnow
PreparedTable(q, utcnow) ==
    [i \in 1..Len(q) |->
        LET row == [NewAnalysisRow(<< >>, q[i].username, q[i].score, utcnow - q[i].age)
                       EXCEPT !.id = i]
        IN  IF q[i].contacted THEN MarkedRow(row, NoNotes, utcnow - q[i].age) ELSE row]

PreparedTables(utcnow) ==
    { PreparedTable(q, utcnow) :
        q \in { r \in UNION { [1..n -> ReportRowKinds] : n \in 0..MaxHistory } :
                  \A i, j \in 1..Len(r) : i < j => r[i].age >= r[j].age } }

ReportInit ==
    /\ ScoreIdle /\ ProfilesIdle /\ ApiIdle
    /\ clock = DriverStart /\ response = NoResponse
    /\ crawl_jobs = IdleJobs
    /\ job_log = [j \in JobIds |-> NoRun(IdleJobs[j])]
    /\ \E off \in HostUtcOffsets :
          /\ sched = [SchedInit EXCEPT !.utc_offset = off]
          /\ analysis_history \in PreparedTables(DriverStart - off)

ReportNext ==
    \/ Start
    \/ FinishCheck
    \/ Sleep
    \/ GenerateWeeklyReport

SpecReport == ReportInit /\ [][ReportNext]_vars

-----------------------------------------------------------------------------
(* Claims about the opportunity score, checked under SpecScore *)

Analyzed == analysis # NotAnalyzed
NonEmptyPosts == Len(profile_data.recent_posts) > 0

\* engagement_rate < tenths/10 for the analyzed snapshot, from its raw counts
EngagementBelow(tenths) ==
    LET posts == profile_data.recent_posts
        engaged == TotalLikes(posts) + TotalComments(posts)
    IN  IF profile_data.followers > 0
        THEN engaged * 100 * 10 < tenths * Len(posts) * profile_data.followers
        ELSE TRUE

\* avg_interval > days for the analyzed snapshot
IntervalAbove(days) ==
    GapSum(profile_data.recent_posts) > days * GapCnt(profile_data.recent_posts)

\* the sum of the base and of the bonuses that fire, in tenths
BonusSum ==
    50 + (IF EngagementBelow(20) THEN 15 ELSE 0)
       + (IF IntervalAbove(5) THEN 15 ELSE 0)
       + (IF LastPostDays(profile_data.recent_posts, StartTime) > 7 THEN 10 ELSE 0)
       + (IF profile_data.followers > 1000 /\ EngagementBelow(25) THEN 10 ELSE 0)
       + (IF profile_data.is_business THEN 5 ELSE 0)

\* C1: for every snapshot with a non-empty post sequence the opportunity score
\* returned by analyze_profile lies in the closed interval [1.0, 10.0].
C1_ScoreInRange ==
    (Analyzed /\ NonEmptyPosts) =>
        (analysis.opportunity_score >= 10 /\ analysis.opportunity_score <= 100)

\* C1 witness: an analyzed snapshot whose bonuses sum to 10.5, so that the
\* upper bound is the binding one.
C1_Witness ==
    /\ Analyzed /\ NonEmptyPosts
    /\ BonusSum = 105
    /\ analysis.opportunity_score = 100

\* C9: the score is 5.0 plus 1.5 (engagement_rate < 2.0), 1.5 (avg_interval > 5),
\* 1.0 (last_post_days > 7), 1.0 (followers > 1000 and engagement_rate < 2.5) and
\* 0.5 (business), rounded to one decimal and then clamped to [1.0, 10.0]; with
\* all five bonuses (10.5) it is 10.0.
C9_ScoreFormula ==
    (Analyzed /\ NonEmptyPosts) =>
        /\ analysis.opportunity_score = Min2(100, Max2(10, BonusSum))
        /\ (BonusSum = 105 => analysis.opportunity_score = 100)

\* C9 witness: an analyzed snapshot for which some but not all bonuses fire, the
\* business bonus among them.
C9_Witness ==
    /\ Analyzed /\ NonEmptyPosts
    /\ profile_data.is_business
    /\ EngagementBelow(25) /\ ~EngagementBelow(20)
    /\ profile_data.followers > 1000
    /\ analysis.opportunity_score = 65 + (IF IntervalAbove(5) THEN 15 ELSE 0)
                                       + (IF analysis.last_post_days > 7 THEN 10 ELSE 0)

\* The scenario of C10: followers=1000, following=2000, posts=5, avg_likes=5,
\* avg_comments=0.2, avg_interval=12, last_post_days=10, business=false.
Scenario10 ==
    LET posts == profile_data.recent_posts
    IN  /\ profile_data.followers = 1000
        /\ profile_data.following = 2000
        /\ profile_data.total_posts = 5
        /\ ~profile_data.is_business
        /\ Len(posts) = 5
        /\ TotalLikes(posts) = 5 * Len(posts)
        /\ TotalComments(posts) * 10 = 2 * Len(posts)
        /\ GapSum(posts) = 12 * GapCnt(posts)
        /\ LastPostDays(posts, StartTime) = 10

Scenario10Findings ==
    /\ analysis.engagement_rate = 52
    /\ analysis.issues = << IssueLowEngagement, IssueInconsistent, IssueInactive,
                            IssueOverFollowing, IssueLimitedLibrary >>
    /\ analysis.growth_potential = "low"

\* C10 as stated: in the scenario the engagement rate is 0.52, the issues are
\* exactly the five named ones, the tier is 'low' and the final score is 10.0.
C10_ScenarioScoreTen ==
    (Analyzed /\ Scenario10) =>
        (Scenario10Findings /\ analysis.opportunity_score = 100)

\* C10 amended: in the scenario the engagement rate is 0.52, the issues are
\* exactly the five named ones, the tier is 'low' and the final score is 9.0:
\* followers = 1000 is not > 1000, so the established-account bonus does not fire.
C10_ScenarioScoreNine ==
    (Analyzed /\ Scenario10) =>
        (Scenario10Findings /\ analysis.opportunity_score = 90)

\* C10 witness: the scenario's snapshot has been analyzed.
C10_Witness == Analyzed /\ Scenario10 /\ analysis.error = NoError

\* avg_comments < avg_likes * percent / 100 for the analyzed snapshot
CommentsBelow(percent) ==
    TotalComments(profile_data.recent_posts) * 100
        < TotalLikes(profile_data.recent_posts) * percent

\* the six issue rules in their order, each with whether it fires
IssueRules ==
    << [issue |-> IssueLowEngagement, fires |-> EngagementBelow(20)],
       [issue |-> IssueInconsistent, fires |-> IntervalAbove(5)],
       [issue |-> IssueInactive,
        fires |-> LastPostDays(profile_data.recent_posts, StartTime) > 7],
       [issue |-> IssueOverFollowing,
        fires |-> 2 * profile_data.following > 3 * profile_data.followers],
       [issue |-> IssueWeakComments, fires |-> CommentsBelow(2)],
       [issue |-> IssueLimitedLibrary, fires |-> profile_data.total_posts < 50] >>

\* the four conditional recommendation rules in their order
RecommendationRules ==
    << [rec |-> RecHashtags, fires |-> EngagementBelow(30)],
       [rec |-> RecSchedule, fires |-> IntervalAbove(3)],
       [rec |-> RecConversation, fires |-> CommentsBelow(5)],
       [rec |-> RecResume,
        fires |-> LastPostDays(profile_data.recent_posts, StartTime) > 3] >>

Firing(rules) == SelectSeq(rules, LAMBDA r : r.fires)
FirstOf(seq, k) == [i \in 1..Min2(k, Len(seq)) |-> seq[i]]

\* C26: the issue list is exactly the first five, in the fixed rule order, of
\* the rules that fire: (1) engagement_rate < 2.0, (2) avg_interval > 5,
\* (3) last_post_days > 7, (4) following > followers x 1.5, (5) avg_comments <
\* avg_likes x 0.02, (6) total_posts < 50; when all six fire, 'limited content
\* library' is the one dropped.
C26_IssuesFirstFiveInOrder ==
    (Analyzed /\ NonEmptyPosts) =>
        LET fired == Firing(IssueRules)
        IN  /\ analysis.issues = [i \in 1..Min2(5, Len(fired)) |-> fired[i].issue]
            /\ Len(fired) = 6 =>
                  analysis.issues = << IssueLowEngagement, IssueInconsistent,
                                       IssueInactive, IssueOverFollowing,
                                       IssueWeakComments >>

\* C26 witness: all six rules fire for the analyzed snapshot and five issues
\* are returned.
C26_Witness ==
    /\ Analyzed /\ NonEmptyPosts
    /\ Len(Firing(IssueRules)) = 6
    /\ Len(analysis.issues) = 5

\* what C27 says the recommendation list is
ExpectedRecommendations ==
    LET fired == Firing(RecommendationRules)
    IN  FirstOf([i \in 1..Len(fired) |-> fired[i].rec]
                    \o << RecTopPosts, RecPostingTimes, RecVisualQuality >>, 6)

\* C27: the recommendation list is the conditional recommendations that fire,
\* in the fixed order (engagement_rate < 3.0, avg_interval > 3, avg_comments <
\* avg_likes x 0.05, last_post_days > 3), followed by the three unconditional
\* ones (analyze-top-posts, optimize-posting-times, invest-in-visual-quality),
\* the whole cut to its first 6 entries.
C27_RecommendationsInOrder ==
    (Analyzed /\ NonEmptyPosts) => analysis.recommendations = ExpectedRecommendations

\* C27 witness: three of the four conditional rules fire, the second one not,
\* and the list is those three followed by the three unconditional ones.
C27_Witness ==
    /\ Analyzed /\ NonEmptyPosts
    /\ EngagementBelow(30) /\ ~IntervalAbove(3) /\ CommentsBelow(5)
    /\ analysis.last_post_days > 3
    /\ analysis.recommendations = << RecHashtags, RecConversation, RecResume,
                                     RecTopPosts, RecPostingTimes, RecVisualQuality >>

\* all four conditional recommendation rules fire for the analyzed snapshot:
\* seven recommendations are built and the last unconditional one is cut
SeventhRecommendationCut ==
    /\ Analyzed /\ NonEmptyPosts
    /\ Len(Firing(RecommendationRules)) = 4
    /\ analysis.recommendations = << RecHashtags, RecSchedule, RecConversation,
                                     RecResume, RecTopPosts, RecPostingTimes >>

DayGaps ==
    LET posts == profile_data.recent_posts
    IN  [i \in 1..(Len(posts) - 1) |-> (posts[i].date - posts[i + 1].date) \div 24]
DayGapTotal == SumOver(DayGaps, Len(DayGaps))

\* the label the claim gives to the mean total / count of the day gaps
LabelOfMean(total, count) ==
    IF 10 * total <= 15 * count THEN "daily"
    ELSE IF total <= 4 * count THEN "2-3 times/week"
    ELSE IF total <= 9 * count THEN "weekly"
    ELSE "irregular"

\* the label of a snapshot with at least two posts is the one of the claim's
\* table
LabelFollowsTable ==
    Len(profile_data.recent_posts) >= 2 =>
        analysis.posting_frequency = LabelOfMean(DayGapTotal, Len(DayGaps))

\* C29: for a snapshot with posts the posting-frequency label is 'daily' iff
\* avg_interval <= 1.5, '2-3 times/week' iff 1.5 < avg_interval <= 4, 'weekly'
\* iff 4 < avg_interval <= 9 and 'irregular' iff avg_interval > 9, the mean being
\* that of the day gaps of adjacent posts; a snapshot with fewer than 2 posts
\* (default interval 30) is 'irregular'.  An empty post sequence is not
\* analyzed: its result is the insufficient-data error, without a label.
C29_FrequencyLabel ==
    Analyzed =>
        /\ LabelFollowsTable
        /\ Len(profile_data.recent_posts) = 1 =>
              analysis.posting_frequency = "irregular"
        /\ Len(profile_data.recent_posts) = 0 =>
              /\ analysis.error = InsufficientData
              /\ analysis.posting_frequency = ""

\* C29 witness: the gaps of three posts are 1 and 2 days, a mean of exactly
\* 1.5, and the label is 'daily'.
C29_Witness ==
    /\ Analyzed
    /\ Len(profile_data.recent_posts) = 3
    /\ DayGaps = << 1, 2 >>
    /\ analysis.posting_frequency = "daily"

\* the other boundaries of C29: a mean of exactly 4, of exactly 9, the
\* smallest mean above 9 of the family, and a single post
MeanFourIsTwoThree ==
    /\ Analyzed /\ Len(DayGaps) = 3 /\ DayGapTotal = 12
    /\ analysis.posting_frequency = "2-3 times/week"
MeanNineIsWeekly ==
    /\ Analyzed /\ Len(DayGaps) = 1 /\ DayGapTotal = 9
    /\ analysis.posting_frequency = "weekly"
MeanAboveNineIsIrregular ==
    /\ Analyzed /\ Len(DayGaps) = 2 /\ DayGapTotal = 19
    /\ analysis.posting_frequency = "irregular"
SinglePostIsIrregular ==
    /\ Analyzed /\ Len(profile_data.recent_posts) = 1
    /\ analysis.posting_frequency = "irregular"

\* likes plus comments over the posts of the analyzed snapshot
Engagements ==
    TotalLikes(profile_data.recent_posts) + TotalComments(profile_data.recent_posts)

\* C30: the engagement rate is 0 whenever followers = 0 (nothing is divided),
\* is (avg_likes + avg_comments) / followers x 100 whenever followers > 0, the
\* reported value being that rate rounded to two decimals, and is never
\* negative.
C30_EngagementRate ==
    (Analyzed /\ NonEmptyPosts) =>
        /\ profile_data.followers = 0 => analysis.engagement_rate = 0
        /\ profile_data.followers > 0 =>
              analysis.engagement_rate =
                  RoundHalfEven(Engagements * 100 * 100,
                                Len(profile_data.recent_posts) * profile_data.followers)
        /\ analysis.engagement_rate >= 0

\* C30 witness: a snapshot with likes and comments but no followers has been
\* analyzed: the rate is 0 and counts as low engagement.
C30_Witness ==
    /\ Analyzed /\ NonEmptyPosts
    /\ profile_data.followers = 0
    /\ Engagements > 0
    /\ TotalComments(profile_data.recent_posts) > 0
    /\ analysis.engagement_rate = 0
    /\ analysis.issues[1] = IssueLowEngagement

\* C31: the growth tier is 'low' iff engagement_rate < 1.5 and avg_interval
\* > 7; otherwise 'medium' iff engagement_rate < 3.0 or avg_interval > 4;
\* otherwise 'high'; exactly one of the three tiers is returned.
C31_GrowthTier ==
    (Analyzed /\ NonEmptyPosts) =>
        /\ analysis.growth_potential \in {"low", "medium", "high"}
        /\ analysis.growth_potential = "low" <=>
              (EngagementBelow(15) /\ IntervalAbove(7))
        /\ analysis.growth_potential = "medium" <=>
              /\ ~(EngagementBelow(15) /\ IntervalAbove(7))
              /\ EngagementBelow(30) \/ IntervalAbove(4)
        /\ analysis.growth_potential = "high" <=>
              (~EngagementBelow(30) /\ ~IntervalAbove(4))

\* C31 witness: a snapshot with an engagement rate below 1.5 whose mean
\* interval is exactly 7 days is 'medium', not 'low'.
C31_Witness ==
    /\ Analyzed /\ Len(profile_data.recent_posts) >= 2
    /\ EngagementBelow(15)
    /\ DayGapTotal = 7 * Len(DayGaps)
    /\ analysis.growth_potential = "medium"

\* the other tiers are returned too
TierLow  == Analyzed /\ NonEmptyPosts /\ analysis.growth_potential = "low"
TierHigh == Analyzed /\ NonEmptyPosts /\ analysis.growth_potential = "high"

\* a rate that is not a multiple of a hundredth is reported rounded
RateIsRounded ==
    /\ Analyzed /\ NonEmptyPosts
    /\ profile_data.followers > 0
    /\ (Engagements * 100 * 100)
           % (Len(profile_data.recent_posts) * profile_data.followers) # 0

\* the scores from 5.0 to 10.0 in steps of 0.5, in tenths
HalfPointScores == { 50 + 5 * k : k \in 0..10 }

\* C40: for every profile with at least one post the opportunity score is at
\* least 5.0, the base, and a multiple of 0.5: it is one of 5.0, 5.5, ..., 10.0,
\* so the lower bound 1.0 of the clamp never decides it.
C40_ScoreInHalfPoints ==
    (Analyzed /\ NonEmptyPosts) =>
        /\ analysis.error = NoError
        /\ analysis.opportunity_score >= 50
        /\ analysis.opportunity_score % 5 = 0
        /\ analysis.opportunity_score \in HalfPointScores

\* C40 witness: a business account to which no other bonus applies scores 5.5.
C40_Witness ==
    /\ Analyzed /\ NonEmptyPosts
    /\ profile_data.is_business
    /\ analysis.opportunity_score = 55

-----------------------------------------------------------------------------
(* Claims about the repository, checked under SpecRepo *)

\* C2: whatever rows were appended (several per identifier, equal timestamps
\* included) and whatever minScore and limit, get_top_opportunities never
\* returns two rows with the same identifier.
C2_NoDuplicateIdentifier ==
    response.op = "get_top_opportunities" =>
        \A i, j \in 1..Len(response.rows) :
            i # j => response.rows[i].username # response.rows[j].username

\* the rows of identifier u that carry its maximum timestamp
NewestRows(hist, u) ==
    { i \in RowsOf(hist, u) :
        \A j \in RowsOf(hist, u) : hist[j].analyzed_at <= hist[i].analyzed_at }

\* the identifiers whose most recent record scores at least min_score
QualifyingIdentifiers(hist, min_score) ==
    { u \in Usernames :
        \E i \in NewestRows(hist, u) : hist[i].opportunity_score >= min_score }

NoEqualTimestamps(hist) ==
    \A i, j \in 1..Len(hist) :
        (i # j /\ hist[i].username = hist[j].username) =>
            hist[i].analyzed_at # hist[j].analyzed_at

\* what C11 says of a result `rows` of get_top_opportunities(min_score, limit)
\* over the table hist
LatestPerIdentifier(hist, min_score, limit, rows) ==
    /\ \A k \in 1..Len(rows) :
          /\ rows[k] = hist[rows[k].id]
          /\ rows[k].id \in NewestRows(hist, rows[k].username)
          /\ rows[k].opportunity_score >= min_score
    /\ Len(rows) = Min2(limit, Cardinality(QualifyingIdentifiers(hist, min_score)))
    /\ \A i, k \in 1..Len(rows) :
          i < k => rows[i].opportunity_score >= rows[k].opportunity_score
    /\ \A u \in QualifyingIdentifiers(hist, min_score) :
          \/ \E k \in 1..Len(rows) : rows[k].username = u
          \/ \A k \in 1..Len(rows), i \in NewestRows(hist, u) :
                rows[k].opportunity_score >= hist[i].opportunity_score

\* C11: get_top_opportunities returns one record per identifier whose most
\* recent record scores at least min_score, that record and no older one,
\* ordered by descending score and cut to the `limit` highest-scoring ones.
C11_LatestPerIdentifier ==
    response.op = "get_top_opportunities" =>
        LatestPerIdentifier(response.before, response.min_score, response.limit,
                            response.rows)

\* The same over tables in which no identifier has two records with one timestamp
LatestPerIdentifierWithoutTies ==
    (response.op = "get_top_opportunities" /\ NoEqualTimestamps(response.before)) =>
        LatestPerIdentifier(response.before, response.min_score, response.limit,
                            response.rows)

\* an older record of an identifier reaches min_score, its newest does not,
\* and the identifier is absent from the result
OlderRecordIgnored ==
    /\ response.op = "get_top_opportunities"
    /\ NoEqualTimestamps(response.before)
    /\ \E u \in Usernames :
          /\ \E i \in RowsOf(response.before, u) :
                response.before[i].opportunity_score >= response.min_score
          /\ u \notin QualifyingIdentifiers(response.before, response.min_score)
          /\ \A k \in 1..Len(response.rows) : response.rows[k].username # u

-----------------------------------------------------------------------------
(* Claims about lead management, checked under SpecContact *)

\* C8: mark_contacted on an identifier that has no row returns false and changes
\* nothing: no row is created and no row of any identifier is modified.
C8_MarkUnknownIsNoOp ==
    (response.op = "mark_contacted" /\ RowsOf(response.before, response.username) = {}) =>
        /\ response.ok = FALSE
        /\ analysis_history = response.before

\* C8 witness: mark_contacted has just returned false for an identifier without
\* rows while another identifier has rows, none of them marked.
C8_Witness ==
    /\ response.op = "mark_contacted"
    /\ ~response.ok
    /\ RowsOf(analysis_history, response.username) = {}
    /\ Len(analysis_history) > 0
    /\ \A i \in 1..Len(analysis_history) : ~analysis_history[i].contacted

\* the fields of a record other than the contact status fields
WrittenFields(row) ==
    [id |-> row.id, username |-> row.username,
     opportunity_score |-> row.opportunity_score, analyzed_at |-> row.analyzed_at,
     issues |-> row.issues, recommendations |-> row.recommendations]

MarkedRows(before, after, u, notes, now) ==
    { i \in 1..Len(before) :
        /\ after = [before EXCEPT ![i] = after[i]]
        /\ after[i] = [before[i] EXCEPT
                          !.contacted = TRUE, !.contacted_date = now,
                          !.notes = IF notes # NoNotes THEN notes ELSE @] }

\* C25: mark_contacted on an identifier with at least one record returns true
\* and sets the contacted flag, the date, and the notes when non-empty notes
\* are given, on exactly one record, one with the greatest timestamp of that
\* identifier; every other record is unchanged.
C25_MarksLatestOnly ==
    (response.op = "mark_contacted" /\ RowsOf(response.before, response.username) # {}) =>
        /\ response.ok
        /\ Len(analysis_history) = Len(response.before)
        /\ \E i \in RowsOf(response.before, response.username) :
              /\ i \in MarkedRows(response.before, analysis_history, response.username,
                                  response.notes, clock)
              /\ \A j \in RowsOf(response.before, response.username) :
                    response.before[j].analyzed_at <= response.before[i].analyzed_at
              /\ \A j \in 1..Len(analysis_history) :
                    j # i => analysis_history[j] = response.before[j]

\* C25 witness: mark_contacted with notes has just marked the newer of two
\* records of an identifier and left the older one as it was.
C25_Witness ==
    /\ response.op = "mark_contacted" /\ response.ok
    /\ \E i, k \in RowsOf(analysis_history, response.username) :
          /\ analysis_history[i].analyzed_at < analysis_history[k].analyzed_at
          /\ ~response.before[k].contacted
          /\ analysis_history[k].contacted
          /\ analysis_history[k].notes = response.notes
          /\ response.notes # NoNotes
          /\ analysis_history[i] = response.before[i]

-----------------------------------------------------------------------------
(* Claims about the cache, checked under SpecApi *)

\* the age, at the cache check of task t, of the entry the check read
SeenAge(t) == t.started - FromIsoFormat(t.seen.analyzed_at)

\* C3: an analyze without force-refresh that finds an entry computed less than
\* 24 hours ago returns that payload, fetches nothing and appends no row; one
\* that finds an entry of 24 hours or more is a miss: the data source is
\* fetched and, if the analysis succeeds, the entry is overwritten.
C3_CacheFreshness ==
    \A i \in TaskIds :
        LET t == tasks[i]
        IN  (t.st # "free" /\ ~t.force_refresh /\ t.seen # NotCached) =>
                IF SeenAge(t) < 24 * 3600
                THEN /\ t.st = "done"
                     /\ t.results = t.seen
                     /\ ~t.fetched /\ ~t.wrote /\ ~t.appended
                ELSE /\ t.st = "fetching" \/ t.fetched
                     /\ (t.st = "done" /\ t.results.error = NoError) =>
                            (t.wrote /\ t.results.analyzed_at # t.seen.analyzed_at)

\* C3 witness: a request without force-refresh met an entry exactly 24 hours
\* old, fetched, and its new payload has replaced the entry.
C3_Witness ==
    \E i \in TaskIds :
        /\ tasks[i].st = "done" /\ ~tasks[i].force_refresh
        /\ tasks[i].seen # NotCached
        /\ SeenAge(tasks[i]) = 24 * 3600
        /\ tasks[i].fetched /\ tasks[i].wrote
        /\ analysis_cache[tasks[i].username] = tasks[i].results
        /\ analysis_cache[tasks[i].username] # tasks[i].seen

\* the step in which task i resumes after the executor returned
Resumes(i) == tasks[i].st = "computed" /\ tasks'[i].st = "done"

\* the record add_analysis makes of the payload a at the time now, as the last
\* row of the table hist
AppendedOne(hist, after, a, now) ==
    /\ Len(after) = Len(hist) + 1
    /\ SubSeq(after, 1, Len(hist)) = hist
    /\ after[Len(after)].username = a.username
    /\ after[Len(after)].opportunity_score = a.opportunity_score
    /\ after[Len(after)].analyzed_at = now

\* C33: an analyze-one request with force-refresh always invokes the data
\* source, even when a fresh cache entry exists for the identifier; when the
\* analysis succeeds it overwrites the identifier's cache entry with the new
\* result and appends one new analysis record (none if an insert raises).
C33_ForceRefreshFetches ==
    /\ [](\A i \in TaskIds :
            (tasks[i].st # "free" /\ tasks[i].force_refresh) =>
                /\ tasks[i].st = "fetching" \/ tasks[i].fetched
                /\ (tasks[i].st = "done" /\ tasks[i].results.error = NoError) =>
                      tasks[i].wrote)
    /\ [][\A i \in TaskIds :
            (Resumes(i) /\ tasks[i].force_refresh /\ tasks[i].results.error = NoError) =>
                /\ analysis_cache'[tasks[i].username] = tasks[i].results
                /\ \/ AppendedOne(analysis_history, analysis_history',
                                  tasks[i].results, UtcNow)
                   \/ analysis_history' = analysis_history]_vars

\* C33 witness: a forced request met an entry 12 hours old, fetched, replaced
\* the entry with its new payload and appended a record to the one the first
\* analysis had stored.
C33_Witness ==
    \E i \in TaskIds :
        /\ tasks[i].st = "done" /\ tasks[i].force_refresh
        /\ tasks[i].seen # NotCached
        /\ SeenAge(tasks[i]) = HalfDay
        /\ tasks[i].fetched /\ tasks[i].wrote /\ tasks[i].appended
        /\ analysis_cache[tasks[i].username] = tasks[i].results
        /\ tasks[i].results # tasks[i].seen
        /\ Len(analysis_history) = 2
        /\ analysis_history[2].username = tasks[i].username
        /\ analysis_history[2].analyzed_at = clock

\* the step in which clear_cache runs, and the one in which a request for an
\* identifier without force-refresh reaches the cache check in slot i
ClearStep == response = NoResponse /\ response'.op = "clear_cache"
ChecksCache(i) ==
    /\ tasks[i].st = "free" /\ tasks'[i].st # "free"
    /\ ~tasks'[i].force_refresh
Cached(cache) == { u \in Identifiers : cache[u] # NotCached }

\* C35: cache-clear returns the number of entries the cache held immediately
\* before the call and leaves the cache empty, so that an analyze without
\* force-refresh that finds the cache as clear left it is a miss for every
\* identifier; clear changes no analysis record, profile summary or crawl job.
C35_ClearEmptiesCache ==
    /\ [][ClearStep =>
            /\ response'.count = Cardinality(Cached(analysis_cache))
            /\ Cached(analysis_cache') = {}
            /\ UNCHANGED << analysis_history, instagram_profiles, crawl_jobs >>]_vars
    /\ [][\A i \in TaskIds :
            (ChecksCache(i) /\ Cached(analysis_cache) = {}) =>
                /\ tasks'[i].st = "fetching"
                /\ tasks'[i].seen = NotCached]_vars

\* C35 witness: the record and the profile summary of an identifier are
\* stored, clear has returned 1 and the cache is empty.
C35_Witness ==
    /\ response.op = "clear_cache" /\ response.count = 1
    /\ Cached(analysis_cache) = {}
    /\ Len(analysis_history) = 1
    /\ instagram_profiles[analysis_history[1].username] # NoSummary

\* a request without force-refresh misses on an identifier analyzed at this
\* very time: only a clear in between explains it
MissAfterClear ==
    \E i \in TaskIds :
        /\ tasks[i].st = "fetching" /\ ~tasks[i].force_refresh
        /\ tasks[i].seen = NotCached
        /\ Len(analysis_history) > 0
        /\ analysis_history[Len(analysis_history)].username = tasks[i].username
        /\ analysis_history[Len(analysis_history)].analyzed_at = UtcNow

\* C36: when the fetch or the analysis of an identifier ends in an error
\* (profile not fetched, no posts), also on a forced refresh or on the
\* recomputation of a stale entry, the cache is left as it is (no entry is
\* created, an existing entry keeps its payload), nothing is appended to the
\* repository, and the caller receives the error and not the cached payload.
C36_ErrorLeavesCache ==
    /\ [](\A i \in TaskIds :
            (tasks[i].st = "done" /\ tasks[i].fetched
                /\ tasks[i].results.error # NoError) =>
                /\ tasks[i].results \in { ErrorResult(CouldNotFetch, tasks[i].username),
                                          ErrorResult(InsufficientData, "") }
                /\ tasks[i].results # tasks[i].seen
                /\ ~tasks[i].wrote /\ ~tasks[i].appended)
    /\ [][\A i \in TaskIds :
            (Resumes(i) /\ tasks[i].results.error # NoError) =>
                UNCHANGED << analysis_cache, analysis_history, instagram_profiles >>]_vars

\* C36 witness: a forced refresh of a cached identifier ended in an error; the
\* entry it met is still in the cache and the table has the one row of the
\* first analysis.
C36_Witness ==
    \E i \in TaskIds :
        /\ tasks[i].st = "done" /\ tasks[i].force_refresh /\ tasks[i].fetched
        /\ tasks[i].results.error # NoError
        /\ tasks[i].seen # NotCached
        /\ analysis_cache[tasks[i].username] = tasks[i].seen
        /\ Len(analysis_history) = 1

\* the same for an entry 24 hours old met without force-refresh, and for an
\* identifier that had no entry
StaleEntryKeptOnError ==
    \E i \in TaskIds :
        /\ tasks[i].st = "done" /\ ~tasks[i].force_refresh /\ tasks[i].fetched
        /\ tasks[i].results.error = InsufficientData
        /\ tasks[i].seen # NotCached
        /\ analysis_cache[tasks[i].username] = tasks[i].seen
NoEntryCreatedOnError ==
    \E i \in TaskIds :
        /\ tasks[i].st = "done" /\ tasks[i].fetched
        /\ tasks[i].results.error = CouldNotFetch
        /\ tasks[i].seen = NotCached
        /\ analysis_cache[tasks[i].username] = NotCached

\* C39: if cache-clear executes while an analysis of an identifier is in
\* flight (after its cache check and before its cache write), the analysis
\* still commits its result when it completes: the cache then holds exactly the
\* entry of that identifier with that result, and the count clear returned is
\* that of the entries before it, the result not among them.
C39_ClearDuringAnalysis ==
    /\ [][(ClearStep /\ InFlight # {}) =>
            /\ response'.count = Cardinality(Cached(analysis_cache))
            /\ \A i \in InFlight : /\ tasks'[i].st = tasks[i].st
                                    /\ tasks'[i].cleared]_vars
    /\ [][\A i \in TaskIds :
            (Resumes(i) /\ tasks[i].cleared /\ tasks[i].results.error = NoError) =>
                /\ Cached(analysis_cache') = {tasks[i].username}
                /\ analysis_cache'[tasks[i].username] = tasks[i].results]_vars

\* C39 witness: an identifier was analyzed and stored; during the analysis of
\* another one the cache was cleared, and the cache now holds the result of
\* the second analysis only.
C39_Witness ==
    \E i \in TaskIds :
        /\ tasks[i].st = "done" /\ tasks[i].cleared /\ tasks[i].wrote
        /\ Cached(analysis_cache) = {tasks[i].username}
        /\ analysis_cache[tasks[i].username] = tasks[i].results
        /\ Len(analysis_history) > 0
        /\ analysis_history[1].username # tasks[i].username

\* what C32 compares of two results
Findings(a) ==
    [issues |-> a.issues, recommendations |-> a.recommendations,
     growth_potential |-> a.growth_potential,
     opportunity_score |-> a.opportunity_score]

\* task i analyzed the snapshot of its identifier again: the cache held a
\* payload computed from the same snapshot (the data source serves one
\* snapshot with posts per identifier)
AnalyzedAgain(i) ==
    /\ tasks[i].st \in {"computed", "done"} /\ tasks[i].fetched
    /\ tasks[i].results.error = NoError
    /\ tasks[i].seen # NotCached

\* C32: scoring is deterministic: two evaluations of analyze_profile on
\* identical profile snapshots yield identical issues, recommendations,
\* growth tier and opportunity score.
C32_SameSnapshotSameFindings ==
    \A i \in TaskIds :
        AnalyzedAgain(i) => Findings(tasks[i].results) = Findings(tasks[i].seen)

\* task i computed a score and its persistence failed: no row was appended
PersistFailed(i) ==
    /\ tasks[i].st = "done" /\ tasks[i].fetched
    /\ tasks[i].results.error = NoError
    /\ ~tasks[i].appended

\* C22: when the score computation for an identifier succeeds but persisting
\* it fails, the result is nevertheless written to the cache under that
\* identifier and returned without error; the step that meets the failure
\* changes no cache entry other than by writing that result under that
\* identifier.
C22_CachedDespitePersistFailure ==
    /\ [](\A i \in TaskIds : PersistFailed(i) => tasks[i].wrote)
    /\ [][\A i \in TaskIds :
            (Resumes(i) /\ analysis_history' = analysis_history) =>
                \A u \in Identifiers :
                    \/ analysis_cache'[u] = analysis_cache[u]
                    \/ /\ u = tasks[i].username
                       /\ tasks[i].results.error = NoError
                       /\ analysis_cache'[u] = tasks[i].results]_vars

\* C22 witness: the profile upsert of an analysis of "a" raised (no profile
\* row, no analysis row), the payload is in the cache under "a" and the task
\* is about to return it.
C22_Witness ==
    \E i \in TaskIds :
        /\ PersistFailed(i) /\ tasks[i].username = "a"
        /\ instagram_profiles["a"] = NoSummary
        /\ analysis_history = << >>
        /\ analysis_cache["a"] = tasks[i].results
        /\ tasks[i].seen = NotCached

-----------------------------------------------------------------------------
(* Claims about the batch endpoint, checked under SpecBatch *)

Responded == batch.st = "responded"
Submitted == 1..Len(batch.usernames)
InResults(u) == \E k \in 1..Len(batch.results) : batch.results[k].username = u
InErrors(u, text) ==
    \E k \in 1..Len(batch.errors) :
        batch.errors[k].username = u /\ batch.errors[k].error = text
ResultsSortedDesc ==
    \A i, k \in 1..Len(batch.results) :
        i < k => batch.results[i].opportunity_score >= batch.results[k].opportunity_score
Failed(i)    == batch.analyses[i].error # NoError
Succeeded(i) == batch.analyses[i].error = NoError
MeetsMinimum(i) ==
    batch.analyses[i].opportunity_score >= batch.min_opportunity_score
OneConnectionError ==
    /\ Len(batch.usernames) = 3
    /\ Cardinality({ i \in Submitted : batch.analyses[i].error = CouldNotFetch }) = 1
    /\ Cardinality({ i \in Submitted : Succeeded(i) }) = 2

AllCompleted ==
    /\ batch.st = "gathering"
    /\ \A i \in 1..Len(batch.usernames) : tasks[i].st = "done"

\* task i went to the data source and its analysis carries no error
ComputedPayload(i) ==
    /\ i <= Len(batch.usernames)
    /\ tasks[i].fetched
    /\ tasks[i].results.error = NoError

\* C12: once all concurrent analyses of an identifier have completed, its cache
\* entry is the payload that was computed last: no successful analysis of the
\* identifier carries a later analyzed_at than the entry that is left.
C12_LastComputedIsCached ==
    AllCompleted =>
        \A i \in TaskIds :
            ComputedPayload(i) =>
                /\ analysis_cache[tasks[i].username] # NotCached
                /\ FromIsoFormat(analysis_cache[tasks[i].username].analyzed_at)
                       >= FromIsoFormat(tasks[i].results.analyzed_at)

\* two analyses of one identifier were computed at different times and both
\* wrote the cache
TwoWritersOfOneIdentifier ==
    /\ AllCompleted
    /\ \E i, k \in TaskIds :
          /\ i # k /\ ComputedPayload(i) /\ ComputedPayload(k)
          /\ tasks[i].username = tasks[k].username
          /\ tasks[i].results.analyzed_at # tasks[k].results.analyzed_at

\* the analysis of submitted identifier i found a profile without posts
EmptyPosts(i) == batch.analyses[i].error = InsufficientData

\* C21: a profile whose post sequence is empty is surfaced as a degraded result
\* with score 0 and not as an error: in a batch its identifier is counted as
\* successful and is not listed among the errors.
C21_EmptyPostsIsDegradedResult ==
    Responded =>
        \A i \in Submitted :
            EmptyPosts(i) =>
                /\ batch.analyses[i].opportunity_score = 0
                /\ ~InErrors(batch.usernames[i], InsufficientData)
                /\ batch.failed = Cardinality({ k \in Submitted :
                                                  Failed(k) /\ ~EmptyPosts(k) })

\* C23: in every batch response successful is the number of submitted
\* identifiers whose analysis produced a result and failed the number whose
\* analysis produced an error, so successful + failed = total_analyzed
\* whatever the min_opportunity_score filter.
C23_CountsAddUp ==
    Responded =>
        /\ batch.successful = Cardinality({ i \in Submitted : Succeeded(i) })
        /\ batch.failed = Cardinality({ i \in Submitted : Failed(i) })
        /\ batch.successful + batch.failed = batch.total_analyzed

-----------------------------------------------------------------------------
(* Claims about the scheduler, checked under SpecSched *)

\* the loop of the current check has passed job j
Examined(j) == sched.pc # "init" /\ crawl_jobs[j].is_active /\ ~InList(j, sched.jobs)

\* a run of job j was begun by the current check
RanInThisCheck(j) == job_log[j].runs > 0 /\ job_log[j].check = sched.checks

\* the row of job j as the current check found it
RowAtCheck(j) == IF RanInThisCheck(j) THEN job_log[j].before ELSE crawl_jobs[j]

\* C4: at each check a job is run if and only if it is active and its next_run
\* is null or not after the now of the check; an active job whose next_run
\* lies in the future is not run; an inactive job is never run nor mutated.
C4_RunIffDue ==
    \A j \in JobIds :
        /\ ~crawl_jobs[j].is_active =>
              /\ job_log[j].runs = 0 /\ sched.job # j
              /\ crawl_jobs[j] = job_log[j].before
        /\ Examined(j) =>
              (RanInThisCheck(j) <=>
                  (RowAtCheck(j).next_run = Never \/ RowAtCheck(j).next_run <= sched.now))

\* C4 witness: in the second check an active job is run for the first time (its
\* next_run was in the future at the first check), while an inactive job whose
\* next_run is past has never been run.
C4_Witness ==
    \E j, k \in JobIds :
        /\ sched.checks = 2 /\ RanInThisCheck(j) /\ job_log[j].runs = 1
        /\ job_log[j].before.next_run > StartTime
        /\ ~crawl_jobs[k].is_active /\ crawl_jobs[k].next_run # Never
        /\ crawl_jobs[k].next_run <= sched.now
        /\ job_log[k].runs = 0

PeriodDays(frequency) ==
    CASE frequency = "daily" -> 1
      [] frequency = "weekly" -> 7
      [] frequency = "monthly" -> 30
      [] OTHER -> 7

\* the rows of analysis_history appended by the last run of job j
RunRows(j) == (job_log[j].rows_from + 1)..job_log[j].rows_to

C6_FailedRunStaysDue ==
    \A j \in JobIds :
        job_log[j].outcome = "failed" =>
            /\ sched.job # j
            /\ crawl_jobs[j].last_run = job_log[j].before.last_run
            /\ crawl_jobs[j].next_run = job_log[j].before.next_run
            /\ crawl_jobs[j].profiles_found = job_log[j].before.profiles_found
            /\ crawl_jobs[j].is_active
            /\ crawl_jobs[j].next_run = Never \/ crawl_jobs[j].next_run <= clock
            /\ job_log[j].check < sched.checks => InList(j, sched.jobs)

\* C6 witness: the only active job raised in the first check and has been
\* begun again by the second check.
C6_Witness ==
    \E j \in JobIds :
        /\ sched.failures = 1
        /\ job_log[j].runs = 2 /\ job_log[j].check = 2 /\ sched.checks = 2
        /\ \A k \in JobIds \ {j} : job_log[k].runs = 0

\* the last run of job j has ended, by the update or by the handler
RunEnded(j) == job_log[j].outcome \in {"completed", "failed"}

\* the last run of job j found its targets
ReachedLoop(j) == job_log[j].targets > 0

\* C15: a target of a run that fails (fetch error, insufficient data, an
\* exception while it is persisted) does not abort the run: when the run ends,
\* analyze_and_store has been called for every target that has an identifier,
\* and a run that completes has set last_run and next_run and counts in
\* profiles_found the calls that did not fail.
C15_TargetFailureDoesNotAbort ==
    \A j \in JobIds :
        /\ (RunEnded(j) /\ ReachedLoop(j)) => job_log[j].calls = job_log[j].targets
        /\ job_log[j].outcome = "completed" =>
              /\ crawl_jobs[j].profiles_found = job_log[j].calls - job_log[j].failed
              /\ crawl_jobs[j].last_run = job_log[j].first_read
              /\ crawl_jobs[j].next_run =
                    CalculateNextRun(crawl_jobs[j].frequency, job_log[j].second_read)
        /\ (job_log[j].outcome = "running" /\ sched.job = j /\ sched.pc = "targets") =>
              /\ job_log[j].calls + Len(WithUsername(sched.businesses)) = job_log[j].targets
              /\ sched.analyzed_count = job_log[j].calls - job_log[j].failed

\* C15 witness: the analysis of the first of two targets carried an error
\* (it could not be fetched or had no posts), the second was analyzed and
\* stored, and the run completed with profiles_found = 1.
C15_Witness ==
    \E j \in JobIds :
        /\ job_log[j].outcome = "completed"
        /\ job_log[j].targets = 2 /\ job_log[j].failed = 1
        /\ job_log[j].kinds = {"error"}
        /\ crawl_jobs[j].profiles_found = 1
        /\ Cardinality(RunRows(j)) = 1
        /\ analysis_history[job_log[j].rows_to].username = "b"
        /\ crawl_jobs[j].last_run # Never /\ crawl_jobs[j].next_run > clock

\* an insert of the first of two targets raised after its summary was
\* upserted, the second was analyzed and stored, and the run completed
PersistFailureSurvived ==
    \E j \in JobIds :
        /\ job_log[j].outcome = "completed"
        /\ job_log[j].targets = 2 /\ job_log[j].kinds = {"exception"}
        /\ instagram_profiles["a"] # NoSummary
        /\ crawl_jobs[j].profiles_found = 1
        /\ analysis_history[job_log[j].rows_to].username = "b"

\* the loop of the current check is over
CheckDone == sched.pc = "check" /\ sched.jobs = << >>

\* C16: when the loop of a check is over, every active job that was due at the
\* now of the check has been attempted in it, whether or not a run of the
\* check failed, and no job is attempted twice in one check.
C16_EveryDueJobAttemptedOnce ==
    \A j \in JobIds :
        /\ (CheckDone /\ crawl_jobs[j].is_active /\ IsDue(RowAtCheck(j), sched.now)) =>
              RanInThisCheck(j)
        /\ job_log[j].runs > 1 => job_log[j].prev_check < job_log[j].check
        /\ job_log[j].runs <= sched.checks

\* C16 witness: the first job's run failed, and the second job, due too, was
\* run by the same check.
C16_Witness ==
    /\ CheckDone
    /\ job_log[1].outcome = "failed" /\ RanInThisCheck(1)
    /\ RanInThisCheck(2) /\ job_log[2].outcome = "completed"
    /\ job_log[1].runs = 1 /\ job_log[2].runs = 1

\* C17: a completed run of a weekly job leaves next_run = last_run + 7 days
\* exactly.
C17_WeeklyNextRunExact ==
    \A j \in JobIds :
        (job_log[j].outcome = "completed" /\ crawl_jobs[j].frequency = "weekly") =>
            crawl_jobs[j].next_run = crawl_jobs[j].last_run + 7 * SecondsPerDay

\* C18 as stated: an active job that becomes due while the scheduler is idle
\* is started no later than 60 seconds after its next_run.
BecameDueWhileIdle(j) ==
    /\ job_log[j].runs > 0
    /\ job_log[j].idle_from # Never
    /\ job_log[j].before.next_run # Never
    /\ job_log[j].before.next_run > job_log[j].idle_from

C18_StartedWithinATick ==
    \A j \in JobIds :
        BecameDueWhileIdle(j) =>
            job_log[j].started <= job_log[j].before.next_run + LoopSleep

\* C18 amended: a job that becomes due while the scheduler is idle is started
\* by the next hourly check: the check is pending one hour after the check
\* before it returned (after start() for the first one), the loop wakes for
\* it less than 60 seconds later, and the run starts in that check, not
\* before the job's next_run.
C18_StartedByNextHourlyCheck ==
    \A j \in JobIds :
        BecameDueWhileIdle(j) =>
            /\ job_log[j].pending_at # Never
            /\ job_log[j].pending_at <= job_log[j].idle_from + SecondsPerHour
            /\ job_log[j].check > 2 =>
                  job_log[j].pending_at = job_log[j].idle_from + SecondsPerHour
            /\ job_log[j].pending_at <= job_log[j].woke
            /\ job_log[j].woke < job_log[j].pending_at + LoopSleep
            /\ job_log[j].woke <= job_log[j].started
            /\ job_log[j].before.next_run <= job_log[j].started

\* C18 witness: a job whose next_run fell one second after the first check
\* returned is started by the second check, almost an hour later.
C18_Witness ==
    \E j \in JobIds :
        /\ BecameDueWhileIdle(j)
        /\ job_log[j].before.next_run = job_log[j].idle_from + 1
        /\ job_log[j].check = 2
        /\ job_log[j].started > job_log[j].before.next_run + LoopSleep
        /\ job_log[j].started >= job_log[j].before.next_run + SecondsPerHour - 1

\* the period of a job row, in seconds
PeriodOf(job) == PeriodDays(job.frequency) * SecondsPerDay

\* C37: after a run of a job completes at time T, no check starts the job
\* before T plus the period of its frequency: a completed run leaves next_run
\* at least a period after last_run = T, and every run of a job that has
\* completed a run before starts at least a period after that run's time.
C37_RunsAPeriodApart ==
    \A j \in JobIds :
        /\ job_log[j].outcome = "completed" =>
              /\ crawl_jobs[j].last_run = job_log[j].first_read
              /\ crawl_jobs[j].next_run >= crawl_jobs[j].last_run + PeriodOf(crawl_jobs[j])
        /\ (job_log[j].runs > 0 /\ job_log[j].before.last_run # Never) =>
              /\ job_log[j].started >= job_log[j].before.last_run + PeriodOf(job_log[j].before)
              /\ job_log[j].outcome = "completed" =>
                    crawl_jobs[j].last_run >=
                        job_log[j].before.last_run + PeriodOf(job_log[j].before)

\* C37 witness: a monthly job whose last run completed 30 days before the
\* second check was left alone by the first check, an hour earlier, and has
\* been run and completed by the second; the other job, completed in the first
\* check, was not started by the second.
C37_Witness ==
    \E j, k \in JobIds :
        /\ sched.checks = 2 /\ CheckDone
        /\ job_log[j].before.last_run = StartTime + SecondsPerHour - 30 * SecondsPerDay
        /\ job_log[j].runs = 1 /\ job_log[j].check = 2
        /\ job_log[j].outcome = "completed"
        /\ job_log[k].runs = 1 /\ job_log[k].check = 1
        /\ job_log[k].outcome = "completed"
        /\ crawl_jobs[k].next_run > clock

-----------------------------------------------------------------------------
(* Claims about the end of a run, checked under SpecRuns *)

\* run_crawl_job is executing for job j; the job is idle after a run
InRun(j) == sched.job = j /\ sched.pc \in {"search", "targets"}
IdleAgain(j) ==
    /\ ~InRun(j)
    /\ job_log[j].outcome \in {"completed", "failed"}
    /\ "job" \notin sched.busy

\* C38: every job whose run has begun is idle again later, whether the run
\* completes or raises, as long as the calls the run makes return (its targets
\* are a finite list): no job stays in a run forever.
C38_RunsEnd == \A j \in JobIds : InRun(j) ~> IdleAgain(j)

\* C38 witness: the run of the first job raised, the run of the second job
\* completed, and both jobs are idle.
C38_Witness ==
    /\ IdleAgain(1) /\ job_log[1].outcome = "failed"
    /\ IdleAgain(2) /\ job_log[2].outcome = "completed"

\* the run of the first job went through its three targets and completed
ThreeTargetsThenIdle ==
    /\ IdleAgain(1) /\ job_log[1].outcome = "completed"
    /\ job_log[1].calls = 2 /\ job_log[1].targets = 2

-----------------------------------------------------------------------------
(* Claims about the driver loop, checked under SpecDriver *)

\* C13: within the loop of a job run and within the sweep of the monitored
\* profiles, two successive calls of the data source are at least 5 seconds
\* apart.
C13_FiveSecondsBetweenCalls ==
    sched.prev_call # Never =>
        sched.last_call - sched.prev_call >= SleepBetweenProfiles

\* C13 witness: a job run has called the data source for two targets, and the
\* sweep has called it for the monitored profile of the first job and then
\* for one of the second job.
C13_Witness ==
    /\ sched.pc = "sweep"
    /\ sched.prev_call # Never
    /\ sched.last_fetch.username = "c"
    /\ job_log[1].calls = 2 /\ job_log[1].outcome = "completed"

\* two successive calls of a job's loop, exactly 5 seconds apart
TwoCallsOfAJobRun ==
    /\ sched.pc = "targets"
    /\ sched.prev_call # Never
    /\ sched.last_call = sched.prev_call + SleepBetweenProfiles

Running == { j \in JobIds : job_log[j].outcome = "running" }

\* C14: at most one job is running and at most one of job run, sweep and
\* report is in progress; nothing begins while something else is in progress.
C14_OneAtATime ==
    /\ Cardinality(Running) <= 1
    /\ Cardinality(sched.busy) <= 1
    /\ ~sched.overlapped
    /\ Running # {} => sched.busy = {"job"} /\ Running = {sched.job}
    /\ sched.pc = "sweep" => sched.busy = {"sweep"}

\* C14 witness: in the second check, after the weekly report, the first job
\* (whose run of the first check failed) has been run again and has
\* completed, and the second job, due in the same check, is running.
C14_Witness ==
    /\ sched.checks = 2 /\ sched.pc = "targets"
    /\ sched.next_report > clock + SecondsPerDay
    /\ RanInThisCheck(1) /\ job_log[1].outcome = "completed" /\ job_log[1].runs = 2
    /\ Running = {2}

\* the sweep is in progress after two checks and the report
SweepAfterChecks ==
    /\ sched.pc = "sweep" /\ sched.busy = {"sweep"}
    /\ sched.checks = 2
    /\ sched.next_report > clock + SecondsPerDay

\* C19: after a shutdown requested while a profile was being analyzed, that
\* profile's summary has not been upserted without its analysis record
\* having been appended.
C19_NoHalfWrittenProfile ==
    (sched.pc = "stopped" /\ sched.interrupted.username # NoUsername) =>
        ~(sched.interrupted.upserted /\ ~sched.interrupted.appended)

\* C20: the scheduled path does not call the data source for a target that
\* has a fresh entry in analysis_cache, and a result it computed is in
\* analysis_cache afterwards.
C20_CacheOnScheduledPath ==
    sched.last_fetch.username # NoUsername =>
        /\ ~sched.last_fetch.cached
        /\ sched.last_fetch.returned =>
              /\ analysis_cache[sched.last_fetch.username] # NotCached
              /\ analysis_cache[sched.last_fetch.username].analyzed_at
                    = IsoFormat(sched.last_call)

-----------------------------------------------------------------------------
(* Claims about the weekly report, checked under SpecReport *)

\* the step in which generate_weekly_report runs
ReportStep == sched.pc = "pending" /\ Head(sched.runnable) = "report"
Reported == sched.report # << >>

\* C34: the weekly digest contains only records that are the most recent
\* record of their identifier, have a score of at least 6.0, are not marked as
\* contacted and were analyzed within the last 7 days; generating the digest
\* changes no analysis record, crawl job or cache entry.
C34_WeeklyDigest ==
    /\ [](\A k \in 1..Len(sched.report) :
            \E i \in LatestRows(analysis_history) :
                /\ sched.report[k] = analysis_history[i]
                /\ analysis_history[i].opportunity_score >= ReportMinScore
                /\ ~analysis_history[i].contacted
                /\ UtcNow - analysis_history[i].analyzed_at <= 7 * SecondsPerDay)
    /\ [][ReportStep => UNCHANGED << analysis_history, crawl_jobs, analysis_cache >>]_vars

=============================================================================
